---- MODULE Spec2Model ----
(***************************************************************************)
(* A model of pg-aequor (src/lib/lease.js): the signed lease stamped into  *)
(* application_name, the distributed Reaper that runs under an advisory    *)
(* lock, and the client's connection lifecycle.                            *)
(*                                                                         *)
(* Strings are sequences of one-character strings.  Time is one global     *)
(* clock `now`; a lease's expiry and a session's idle time are read off    *)
(* it.                                                                     *)
(***************************************************************************)
EXTENDS Integers, Sequences, FiniteSets, TLC

(***************************************************************************)
(* Bounds of the model.                                                    *)
(***************************************************************************)
NumReapers == 2      \* client instances whose reaper pass is modelled
NumPassive == 1      \* further sessions: peers, neighbours, foreign apps
MaxTime == 2         \* the clock runs 0..MaxTime
LeaseTtl == 1        \* leaseTtlMs, in clock ticks
MinIdle == 1         \* minConnIdleTimeSec, in clock ticks
MaxKill == 1         \* maxIdleConnectionsToKill
HeartbeatSoft == 0   \* heartbeatSoftRemainingMs, in clock ticks
MaxSess == 3         \* sessions one client constructs
MaxLoops == 2        \* connect retry loops that can exist at once
MaxGen == 5          \* the generation counter runs 0..MaxGen
MaxRetries == 1      \* config.retries
HeartbeatHard == 0   \* heartbeatHardWaitRemainingMs, in clock ticks
MaxFatal == 1        \* 'error' events of one session while it serves query()
MaxQueryGen == 3     \* the generation counter runs 0..MaxQueryGen under query()
MaxBeats == 2        \* heartbeat attempts that can exist at once
ReaperCooldown == 1  \* reaperCooldownMs, in clock ticks
MaxExtra == 1        \* jitter and contention backoff added to the cooldown, in ticks
MaxReaps == 2        \* _reap() calls of one client that can be in flight at once
MaxNameLen == 30     \* characters of a service name or instance id given to LeaseManager
ExpBase == 9         \* the expiries given to generateAppName run ExpBase..ExpBase + MaxTime
MaxDelay == 6        \* baseMs, capMs and previousDelay of getBackoff run 0..MaxDelay

\* LeaseManager: the least byte length of a coordination secret.
MinSecretBytes == 16

Reapers == 1..NumReapers
Pids == 1..(NumReapers + NumPassive)
Passive == Pids \ Reapers

\* F(x) with x evaluated once.
Bind(x, F(_)) == CHOOSE v \in {F(y) : y \in {x}} : TRUE

(***************************************************************************)
(* Strings.                                                                *)
(***************************************************************************)
DIGITS == <<"0", "1", "2", "3", "4", "5", "6", "7", "8", "9">>

IsDigit(c) == \E k \in 1..10 : DIGITS[k] = c

DigitVal(c) == (CHOOSE k \in 1..10 : DIGITS[k] = c) - 1

\* `${expirationTs}`: the decimal digits of a non-negative integer.
RECURSIVE ToDec(_)
ToDec(n) == IF n < 10 THEN <<DIGITS[n + 1]>>
            ELSE ToDec(n \div 10) \o <<DIGITS[(n % 10) + 1]>>

DecValue_DigitSum(s) ==
  LET v[k \in 0..Len(s)] == IF k = 0 THEN 0 ELSE v[k - 1] + DigitVal(s[k])
  IN v[Len(s)]

\* The value of a run of digits.
DecValue(s) ==
  LET v[k \in 0..Len(s)] == IF k = 0 THEN 0 ELSE 10 * v[k - 1] + DigitVal(s[k])
  IN v[Len(s)]

\* The longest prefix of s made of digits.
DigitPrefix(s) ==
  LET n == CHOOSE n \in 0..Len(s) :
             /\ \A k \in 1..n : IsDigit(s[k])
             /\ n = Len(s) \/ ~IsDigit(s[n + 1])
  IN SubSeq(s, 1, n)

\* parseInt(eStr, 10): an optional sign, then the leading digits; NaN when
\* there is none.
ParseInt(s) ==
  LET neg == s # <<>> /\ s[1] = "-"
      body == IF s # <<>> /\ s[1] \in {"-", "+"} THEN Tail(s) ELSE s
      ds == DigitPrefix(body)
  IN IF ds = <<>> THEN [nan |-> TRUE, val |-> 0]
     ELSE [nan |-> FALSE, val |-> IF neg THEN 0 - DecValue(ds) ELSE DecValue(ds)]

\* The pieces of s between the occurrences of the character c: what the
\* groups ([^;]+) of parseAndVerify's pattern can match, for c = ';'.
SplitOn(s, c) ==
  LET seps == {k \in 1..Len(s) : s[k] = c}
      Nth(n) == IF n = 0 THEN 0
                ELSE IF n > Cardinality(seps) THEN Len(s) + 1
                ELSE CHOOSE k \in seps : Cardinality({m \in seps : m < k}) = n - 1
  IN [j \in 1..(Cardinality(seps) + 1) |-> SubSeq(s, Nth(j - 1) + 1, Nth(j) - 1)]

(***************************************************************************)
(* LeaseManager.                                                           *)
(***************************************************************************)
\* Normalized service names (_normalizeServiceName keeps [a-zA-Z0-9:_-]) and
\* coordination secrets.
SvcU == <<"a", "_">>
SvcB == <<"a", "b">>
Services == {SvcU, SvcB}
Secret1 == "k1"
Secret2 == "k2"

\* The instance id of the client that owns pid p.
InstOf(p) == <<"i">> \o ToDec(p)

Sign_OfExpiryOnly(secret, text) ==
  <<secret>> \o SubSeq(text, Len(text), Len(text))

\* _sign as an ideal keyed function: an injective, ';'-free encoding of
\* (secret, text).
Sign(secret, text) ==
  <<secret>> \o [k \in 1..Len(text) |-> IF text[k] = ";" THEN "|" ELSE text[k]]

LeaseBase(svc, inst, eStr) ==
  <<"s", "=">> \o svc \o <<";", "i", "=">> \o inst \o <<";", "e", "=">> \o eStr

\* generateAppName of a manager (svc, inst, secret).
GenerateAppName(svc, inst, secret, expirationTs) ==
  LET base == LeaseBase(svc, inst, ToDec(expirationTs))
  IN base \o <<";", "g", "=">> \o Sign(secret, base)

Null == [null |-> TRUE]

\* The field after "k=" when f is "k=<one or more characters>".
IsField(f, key) == Len(f) >= 3 /\ f[1] = key /\ f[2] = "="
FieldVal(f) == SubSeq(f, 3, Len(f))

\* parseAndVerify under `secret` at time t.
ParseAndVerify(secret, appName, t) ==
  IF appName = <<>> THEN Null
  ELSE Bind(SplitOn(appName, ";"), LAMBDA fs :
    IF ~(Len(fs) = 4 /\ IsField(fs[1], "s") /\ IsField(fs[2], "i")
         /\ IsField(fs[3], "e") /\ IsField(fs[4], "g")) THEN Null
    ELSE LET s == FieldVal(fs[1])
             i == FieldVal(fs[2])
             eStr == FieldVal(fs[3])
             g == FieldVal(fs[4])
             expectedSig == Sign(secret, LeaseBase(s, i, eStr))
         IN IF g # expectedSig THEN Null
            ELSE Bind(ParseInt(eStr), LAMBDA exp :
                   IF exp.nan THEN Null
                   ELSE [null |-> FALSE, svc |-> s, inst |-> i, exp |-> exp.val,
                         isExpired |-> t > exp.val]))

\* application_name LIKE pat || '%': '_' in pat matches any one character.
LikePrefix(str, pat) ==
  /\ Len(str) >= Len(pat)
  /\ \A k \in 1..Len(pat) : pat[k] = "_" \/ pat[k] = str[k]

ScanPattern(svc) == <<"s", "=">> \o svc \o <<";">>

(***************************************************************************)
(* State of the Reaper model: the database's sessions and advisory locks,  *)
(* and the reaper pass of every client instance.                           *)
(***************************************************************************)
VARIABLES
  now,         \* the clock (Date.now() and the database's now())
  sess,        \* pg_stat_activity: per pid, state, application_name, state_change, owner
  lockHolder,  \* per service, the pid holding pg_advisory_lock(NS, hashtext(svc)), or 0
  pass,        \* per reaper instance: the locals of Reaper.reap and the queries it issued
  frozen       \* per reaper instance: the worker process is frozen

reaperVars == <<now, sess, lockHolder, pass, frozen>>

(***************************************************************************)
(* State of the client model: the fields of one AequorClient, the          *)
(* sessions it has constructed and its connect retry loops.                *)
(***************************************************************************)
VARIABLES
  client,          \* this._client: the installed session, or 0 for null
  isDead,          \* this._isDead
  generation,      \* this._generation
  connectPromise,  \* this._connectPromise: the running loop, or 0 for null
  loops,           \* per loop: where _connectWithRetry/_connect is suspended
  conns,           \* per constructed session: the state of the pg Client object
  call             \* what the last connect()/query() call did

clientVars == <<client, isDead, generation, connectPromise, loops, conns, call>>

(***************************************************************************)
(* State of query() and of the heartbeat of the same client.               *)
(***************************************************************************)
VARIABLES
  hbMode,            \* this._heartbeatErrorMode
  leaseExp,          \* this._leaseExp
  heartbeatPromise,  \* this._heartbeatPromise: the pending attempt, or 0 for null
  beats,             \* per heartbeat attempt: where _performHeartbeat is suspended
  q,                 \* the query() call in progress: where it is suspended
  beat,              \* how the last heartbeat attempt settled
  handler            \* what the last run of the fatal-event listener did

hbVars == <<hbMode, leaseExp, heartbeatPromise, beats, q, beat, handler>>

(***************************************************************************)
(* Configuration of the same client, its reaper schedule and the hooks     *)
(* _connectWithRetry and _reap emit.                                       *)
(***************************************************************************)
VARIABLES
  config,           \* the constructor's config: leaseMode, coordinationSecret
                    \* (its byte length), reaper, reaperErrorMode, hooks.onConnect
  leaseManager,     \* this._leaseManager: "set", "null", or "raised" when the
                    \* constructor threw
  reaperNextRunAt,  \* this._reaperNextRunAt
  reaps,            \* per _reap() call in flight: the `now` and session it captured
  lastReapAt,       \* the clock when the latest reaper pass started, or -1
  emitted           \* the last hook payload of _connectWithRetry and _reap

schedVars == <<config, leaseManager, reaperNextRunAt, reaps, lastReapAt, emitted>>

(***************************************************************************)
(* A LeaseManager and the RetryStrategy functions called on their own.     *)
(***************************************************************************)
VARIABLES
  lm,      \* the LeaseManager: serviceName, instanceId, secret
  minted,  \* the last generateAppName call: its argument and what it returned
  parsed,  \* the last parseAndVerify call: its argument and what it returned
  retry,   \* the last RetryStrategy call: its arguments and what it returned
  q2,      \* a second query() call on the same client, overlapping the first
  cleaned, \* the last clean() call: whether it was made and the session it ends
  labels   \* per session of the client: the expiry of the label the database
           \* holds for it, 0 for a label without one

libVars == <<lm, minted, parsed, retry, q2, cleaned, labels>>

vars == <<reaperVars, clientVars, hbVars, schedVars, libVars>>

Sessions == 1..MaxSess
Loops == 1..MaxLoops

NoConn == [st |-> "none", endCalled |-> FALSE, gen |-> 0, fatal |-> 0]
FreeLoop == [pc |-> "free", gen |-> 0, s |-> 0, retries |-> 0]
NoCall == [tick |-> FALSE, op |-> "none", did |-> "none", handle |-> 0, on |-> 0]

\* The constructor of AequorClient.
ClientInit ==
  /\ client = 0
  /\ isDead = FALSE
  /\ generation = 0
  /\ connectPromise = 0
  /\ loops = [l \in Loops |-> FreeLoop]
  /\ conns = [s \in Sessions |-> NoConn]
  /\ call = NoCall

Reaps == 1..MaxReaps
SecretLens == {0, MinSecretBytes - 1, MinSecretBytes}

\* What the constructor reads of its config.
Configs == [leaseMode : {"required", "optional"}, secret : SecretLens,
            reaper : BOOLEAN, reaperErrorMode : {"swallow", "throw"},
            onConnect : BOOLEAN]

\* The constructor: without a secret it throws under leaseMode 'required'
\* and leaves _leaseManager null otherwise; with one, new LeaseManager(...)
\* throws when the secret has fewer than 16 bytes.
LeaseManagerOf(cfg) ==
  IF cfg.secret = 0
  THEN IF cfg.leaseMode = "required" THEN "raised" ELSE "null"
  ELSE IF cfg.secret < MinSecretBytes THEN "raised" ELSE "set"

\* this._reaperEnabled: `config.reaper !== false`, and false without a secret.
ReaperEnabled == config.reaper /\ leaseManager # "null"

FreeReap == [pc |-> "free", now |-> 0, s |-> 0]
NoHook == [name |-> "none", gen |-> 0]

\* The reaper and hook fields the constructor sets, for the config cfg.
SchedInit(cfg) ==
  /\ config = cfg
  /\ leaseManager = LeaseManagerOf(cfg)
  /\ reaperNextRunAt = 0
  /\ reaps = [k \in Reaps |-> FreeReap]
  /\ lastReapAt = -1
  /\ emitted = NoHook

NoManager == [serviceName |-> <<>>, instanceId |-> <<>>, secret |-> ""]
NoMint == [called |-> FALSE, exp |-> 0, raised |-> FALSE, text |-> <<>>, length |-> 0]
NoParse == [called |-> FALSE, input |-> "none", text |-> <<>>, at |-> 0, result |-> [null |-> TRUE]]
NoRetry == [fn |-> "none", err |-> [code |-> <<>>, sqlstate |-> <<>>, message |-> <<>>],
            base |-> 0, cap |-> 0, prev |-> 0, result |-> 0, retryable |-> FALSE]

\* No LeaseManager was constructed apart from the client's and no
\* RetryStrategy function was called.
IdleSecond == [pc |-> "idle", retries |-> 0, loop |-> 0, gen |-> 0, on |-> 0,
              result |-> "none"]
NoClean == [called |-> FALSE, s |-> 0]

LibInit ==
  /\ lm = NoManager
  /\ minted = NoMint
  /\ parsed = NoParse
  /\ retry = NoRetry
  /\ q2 = IdleSecond
  /\ cleaned = NoClean
  /\ labels = [s \in Sessions |-> 0]

\* A client given a secret, with `reaper: false` and no onConnect hook.
PlainConfig == [leaseMode |-> "required", secret |-> MinSecretBytes, reaper |-> FALSE,
                reaperErrorMode |-> "swallow", onConnect |-> FALSE]

Beats == 1..MaxBeats
HbModes == {"reconnect", "swallow", "throw"}

FreeBeat == [pc |-> "free", gen |-> 0, s |-> 0, newExp |-> 0]
IdleQuery == [pc |-> "idle", retries |-> 0, sent |-> 0, loop |-> 0, beat |-> 0,
              on |-> 0, err |-> "none", failedOn |-> 0, result |-> "none",
              hooks |-> <<>>]
NoBeat == [how |-> "none", updated |-> FALSE, hook |-> "none",
           rejected |-> FALSE, observed |-> FALSE]
NoHandler == [threw |-> FALSE, hostile |-> FALSE, current |-> FALSE,
              source |-> "none", hook |-> "none"]

\* The heartbeat and query fields the constructor sets; heartbeatErrorMode is
\* any of the three modes.
HbInit ==
  /\ hbMode \in HbModes
  /\ leaseExp = 0
  /\ heartbeatPromise = 0
  /\ beats = [h \in Beats |-> FreeBeat]
  /\ q = IdleQuery
  /\ beat = NoBeat
  /\ handler = NoHandler

NoSession == [st |-> "none", label |-> <<>>, since |-> 0,
              owner |-> [type |-> "none", svc |-> <<>>, secret |-> ""]]

IdlePass == [pc |-> "idle", locked |-> FALSE, lockRes |-> "none", rows |-> <<>>,
             kill |-> <<>>, scanNow |-> 0,
             result |-> [locked |-> FALSE, killed |-> 0, error |-> FALSE],
             thrown |-> FALSE, log |-> <<>>]

\* What may own a session that is not one of the modelled reaper instances: a
\* client of either service under either secret, an application that sets its
\* own application_name, and a label whose e= field was rewritten.
PassiveOwners ==
  {[type |-> "lib", svc |-> SvcU, secret |-> Secret1],
   [type |-> "lib", svc |-> SvcB, secret |-> Secret1],
   [type |-> "lib", svc |-> SvcU, secret |-> Secret2],
   [type |-> "foreign", svc |-> SvcU, secret |-> ""],
   [type |-> "tampered", svc |-> SvcU, secret |-> Secret1]}

\* The configuration of reaper instance r: its normalized serviceName and its
\* reaperErrorMode.
Cfg(r) == [svc |-> IF r % 3 = 0 THEN SvcB ELSE SvcU,
           mode |-> IF r % 2 = 0 THEN "throw" ELSE "swallow"]

OwnerOf(p) == [type |-> "lib", svc |-> Cfg(p).svc, secret |-> Secret1]

\* The application_name a new session of owner o starts with.
InitialLabel(o, p) ==
  CASE o.type = "lib" -> GenerateAppName(o.svc, InstOf(p), o.secret, now + LeaseTtl)
    [] o.type = "foreign" -> ScanPattern(o.svc) \o <<"x">>
    [] OTHER ->
         LeaseBase(o.svc, InstOf(p), <<"0">>) \o <<";", "g", "=">>
           \o Sign(o.secret, LeaseBase(o.svc, InstOf(p), ToDec(now + LeaseTtl)))

Alive(p) == sess[p].st = "idle"

\* The advisory locks once session p is gone: session-level locks die with it.
ReleasedBy(ps) == [s \in Services |-> IF lockHolder[s] \in ps THEN 0 ELSE lockHolder[s]]

\* The database and the reaper passes before any instance connects.
DbInit ==
  /\ now = 0
  /\ sess = [p \in Pids |-> NoSession]
  /\ lockHolder = [s \in Services |-> 0]
  /\ pass = [r \in Reapers |-> IdlePass]
  /\ frozen = [r \in Reapers |-> FALSE]

Init ==
  /\ DbInit
  /\ ClientInit
  /\ HbInit
  /\ hbMode = "reconnect"
  /\ SchedInit(PlainConfig)
  /\ LibInit

(***************************************************************************)
(* The environment: time, sessions of other owners, freezing.              *)
(***************************************************************************)
Tick ==
  /\ now < MaxTime
  /\ now' = now + 1
  /\ UNCHANGED <<sess, lockHolder, pass, frozen, clientVars, hbVars, schedVars, libVars>>

\* AequorClient._connect of a reaper instance: a new session carrying a fresh
\* lease, then a fire-and-forget reaper pass on it.
Connect(r) ==
  /\ ~frozen[r]
  /\ sess[r].st = "none"
  /\ pass[r].pc = "idle"
  /\ sess' = [sess EXCEPT ![r] = [st |-> "idle", label |-> InitialLabel(OwnerOf(r), r),
                                  since |-> now, owner |-> OwnerOf(r)]]
  /\ pass' = [pass EXCEPT ![r] = [IdlePass EXCEPT !.pc = "lock"]]
  /\ UNCHANGED <<now, lockHolder, frozen, clientVars, hbVars, schedVars, libVars>>

\* A session of another owner appears.
ConnectPassive(p) ==
  /\ sess[p].st = "none"
  /\ \E o \in PassiveOwners :
       sess' = [sess EXCEPT ![p] = [st |-> "idle", label |-> InitialLabel(o, p),
                                    since |-> now, owner |-> o]]
  /\ UNCHANGED <<now, lockHolder, pass, frozen, clientVars, hbVars, schedVars, libVars>>

\* The lease the owner of p believes it holds: leaseExp - now.
Remaining(p) ==
  LET l == ParseAndVerify(sess[p].owner.secret, sess[p].label, now)
  IN IF l.null THEN 0 ELSE l.exp - now

CanAct(p) == p \in Reapers => ~frozen[p]

\* _performHeartbeat: set_config('application_name', generateAppName(now + ttl)).
Heartbeat(p) ==
  /\ Alive(p) /\ CanAct(p)
  /\ sess[p].owner.type = "lib"
  /\ Remaining(p) <= HeartbeatSoft
  /\ sess' = [sess EXCEPT ![p].label =
                GenerateAppName(sess[p].owner.svc, InstOf(p), sess[p].owner.secret,
                                now + LeaseTtl),
              ![p].since = now]
  /\ UNCHANGED <<now, lockHolder, pass, frozen, clientVars, hbVars, schedVars, libVars>>

\* A user statement on session p: the session turns active and idle again.
Statement(p) ==
  /\ Alive(p) /\ CanAct(p)
  /\ p \in Reapers => pass[p].pc = "done"
  /\ sess[p].since # now
  /\ sess' = [sess EXCEPT ![p].since = now]
  /\ UNCHANGED <<now, lockHolder, pass, frozen, clientVars, hbVars, schedVars, libVars>>

\* The owner closes the session (clean()/end()); a reaper instance does so
\* after its pass has settled.
Disconnect(p) ==
  /\ Alive(p) /\ CanAct(p)
  /\ p \in Reapers => pass[p].pc = "done"
  /\ sess' = [sess EXCEPT ![p] = [NoSession EXCEPT !.st = "dead"]]
  /\ lockHolder' = ReleasedBy({p})
  /\ pass' = IF p \in Reapers THEN [pass EXCEPT ![p] = IdlePass] ELSE pass
  /\ UNCHANGED <<now, frozen, clientVars, hbVars, schedVars, libVars>>

\* The session of a reaper instance dies under its running pass.
Crash(r) ==
  /\ Alive(r)
  /\ pass[r].pc \in {"lock", "scan", "terminate", "unlock"}
  /\ sess' = [sess EXCEPT ![r] = [NoSession EXCEPT !.st = "dead"]]
  /\ lockHolder' = ReleasedBy({r})
  /\ UNCHANGED <<now, pass, frozen, clientVars, hbVars, schedVars, libVars>>

\* The pid of a dead session is free again once no running pass names it.
Recycle(p) ==
  /\ sess[p].st = "dead"
  /\ p \in Reapers => pass[p].pc \in {"idle", "done"} /\ ~frozen[p]
  /\ \A r \in Reapers : \A k \in 1..Len(pass[r].kill) : pass[r].kill[k] # p
  /\ sess' = [sess EXCEPT ![p] = NoSession]
  /\ pass' = IF p \in Reapers THEN [pass EXCEPT ![p] = IdlePass] ELSE pass
  /\ UNCHANGED <<now, lockHolder, frozen, clientVars, hbVars, schedVars, libVars>>

\* The worker of instance r is frozen by the platform; traffic stays steady:
\* another instance of the service keeps running.
Freeze(r) ==
  /\ ~frozen[r]
  /\ \E r2 \in Reapers \ {r} : ~frozen[r2] /\ Cfg(r2).svc = Cfg(r).svc
  /\ frozen' = [frozen EXCEPT ![r] = TRUE]
  /\ UNCHANGED <<now, sess, lockHolder, pass, clientVars, hbVars, schedVars, libVars>>

(***************************************************************************)
(* Reaper.reap, one action per awaited query.                              *)
(***************************************************************************)
\* client.query on the session of r: it succeeds only on a live session, and
\* may fail on a live one.
QueryOk(r, ok) == ok => Alive(r)

\* The session of r after a statement ran on it.
Touched(r, ok) == IF ok THEN [sess EXCEPT ![r].since = now] ELSE sess

Caught_AlwaysRethrows(r) ==
  [pass[r] EXCEPT !.result = [locked |-> FALSE, killed |-> 0, error |-> TRUE],
                  !.thrown = TRUE]

\* catch (err): the result under reaperErrorMode.
Caught(r) == [pass[r] EXCEPT !.result = [locked |-> FALSE, killed |-> 0, error |-> TRUE],
                             !.thrown = (Cfg(r).mode = "throw")]

Epilogue_AlwaysUnlock(P) == [P EXCEPT !.pc = "unlock", !.rows = <<>>, !.scanNow = 0]

Epilogue_UnlockOnSuccessOnly(P) ==
  [P EXCEPT !.pc = IF P.locked /\ ~P.result.error THEN "unlock" ELSE "done",
            !.rows = <<>>, !.scanNow = 0]

\* finally: unlock when `locked`, else the pass is over.
Epilogue(P) == [P EXCEPT !.pc = IF P.locked THEN "unlock" ELSE "done",
                         !.rows = <<>>, !.scanNow = 0]

\* What the lock query's answer makes of the pass: lockRes.rows[0].locked.
AfterLock_IgnoreAnswer(P, got) ==
  [P EXCEPT !.lockRes = IF got THEN "true" ELSE "false", !.locked = TRUE, !.pc = "scan"]

AfterLock(P, got) ==
  IF got
  THEN [P EXCEPT !.lockRes = "true", !.locked = TRUE, !.pc = "scan"]
  ELSE Epilogue([P EXCEPT !.lockRes = "false",
                          !.result = [locked |-> FALSE, killed |-> 0, error |-> FALSE]])

\* SELECT pg_try_advisory_lock(NS, hashtext(serviceName)).
LockStep(r, ok) ==
  /\ ~frozen[r]
  /\ pass[r].pc = "lock"
  /\ QueryOk(r, ok)
  /\ sess' = Touched(r, ok)
  /\ LET P == [pass[r] EXCEPT !.log = Append(@, "lock")]
         got == lockHolder[Cfg(r).svc] \in {0, r}
     IN IF ok
        THEN /\ pass' = [pass EXCEPT ![r] = AfterLock(P, got)]
             /\ lockHolder' = IF got THEN [lockHolder EXCEPT ![Cfg(r).svc] = r]
                              ELSE lockHolder
        ELSE /\ pass' = [pass EXCEPT ![r] =
                          Epilogue([P EXCEPT !.result = Caught(r).result,
                                             !.thrown = Caught(r).thrown])]
             /\ UNCHANGED lockHolder
  /\ UNCHANGED <<now, frozen, clientVars, hbVars, schedVars, libVars>>

LockQuery(r) == \E ok \in BOOLEAN : LockStep(r, ok)

\* The rows of the scan: idle sessions other than our own whose
\* application_name is LIKE 's=<svc>;%', in pid order.
InScan(r, p) ==
  p # r /\ Alive(p) /\ LikePrefix(sess[p].label, ScanPattern(Cfg(r).svc))

ScanRows(r) ==
  LET all == [p \in 1..(NumReapers + NumPassive) |->
                [pid |-> p, application_name |-> sess[p].label,
                 idle_time |-> now - sess[p].since]]
  IN SelectSeq(all, LAMBDA row : InScan(r, row.pid))

\* The classification loop: rows idle long enough whose lease verifies and
\* is expired.
IsCandidate_NoExpiryCheck(row, t) ==
  /\ ~(row.idle_time < MinIdle)
  /\ ~ParseAndVerify(Secret1, row.application_name, t).null

IsCandidate(row, t) ==
  /\ ~(row.idle_time < MinIdle)
  /\ LET lease == ParseAndVerify(Secret1, row.application_name, t)
     IN ~lease.null /\ lease.isExpired

Candidate(row, t) ==
  [pid |-> row.pid, idle_time |-> row.idle_time,
   exp |-> ParseAndVerify(Secret1, row.application_name, t).exp]

Range(f) == {f[k] : k \in DOMAIN f}

Staler_NewestFirst(a, b) ==
  \/ a.exp > b.exp
  \/ a.exp = b.exp /\ a.idle_time > b.idle_time
  \/ a.exp = b.exp /\ a.idle_time = b.idle_time /\ a.pid < b.pid

\* The comparator of candidates.sort: oldest expiry, then longest idle, then
\* lowest pid.
Staler(a, b) ==
  \/ a.exp < b.exp
  \/ a.exp = b.exp /\ a.idle_time > b.idle_time
  \/ a.exp = b.exp /\ a.idle_time = b.idle_time /\ a.pid < b.pid

\* candidates.sort(...): the k-th element has k - 1 candidates before it.
SortCandidates(cs) ==
  Bind(Range(cs), LAMBDA all :
    [k \in 1..Cardinality(all) |->
       CHOOSE c \in all : Cardinality({d \in all : Staler(d, c)}) = k - 1])

\* candidates.slice(0, Math.max(1, Number(maxIdleConnectionsToKill) || 1)).
KillLimit == IF MaxKill < 1 THEN 1 ELSE MaxKill

PidsToKill(rows, t) ==
  Bind(SelectSeq(rows, LAMBDA row : IsCandidate(row, t)), LAMBDA cands :
    Bind(SortCandidates([k \in 1..Len(cands) |-> Candidate(cands[k], t)]), LAMBDA sorted :
      LET n == IF Len(sorted) < KillLimit THEN Len(sorted) ELSE KillLimit
      IN [k \in 1..n |-> sorted[k].pid]))

\* The scan query and the synchronous classification that follows it.
ScanStep(r, ok) ==
  /\ ~frozen[r]
  /\ pass[r].pc = "scan"
  /\ QueryOk(r, ok)
  /\ sess' = Touched(r, ok)
  /\ \E rows \in {ScanRows(r)} : \E pids \in {PidsToKill(rows, now)} :
     LET P == [pass[r] EXCEPT !.log = Append(@, "scan")]
     IN pass' = [pass EXCEPT ![r] =
          IF ~ok
          THEN Epilogue([P EXCEPT !.result = Caught(r).result,
                                  !.thrown = Caught(r).thrown])
          ELSE IF pids = <<>>
          THEN Epilogue([P EXCEPT !.rows = rows, !.scanNow = now,
                                  !.result = [locked |-> TRUE, killed |-> 0,
                                              error |-> FALSE]])
          ELSE [P EXCEPT !.rows = rows, !.scanNow = now, !.kill = pids,
                         !.pc = "terminate"]]
  /\ UNCHANGED <<now, lockHolder, frozen, clientVars, hbVars, schedVars, libVars>>

ScanQuery(r) == \E ok \in BOOLEAN : ScanStep(r, ok)

\* SELECT pg_terminate_backend(pid) FROM pg_stat_activity WHERE pid = ANY(pidsToKill).
TerminateStep(r, ok) ==
  /\ ~frozen[r]
  /\ pass[r].pc = "terminate"
  /\ QueryOk(r, ok)
  /\ LET P == [pass[r] EXCEPT !.log = Append(@, "terminate")]
         hit == {p \in Range(pass[r].kill) : Alive(p)}
     IN IF ok
        THEN /\ sess' = [p \in Pids |->
                          IF p \in hit THEN [NoSession EXCEPT !.st = "dead"]
                          ELSE IF p = r THEN [sess[r] EXCEPT !.since = now]
                          ELSE sess[p]]
             /\ lockHolder' = ReleasedBy(hit)
             /\ pass' = [pass EXCEPT ![r] =
                  Epilogue([P EXCEPT !.result =
                              [locked |-> TRUE, killed |-> Len(pass[r].kill),
                               error |-> FALSE]])]
        ELSE /\ pass' = [pass EXCEPT ![r] =
                  Epilogue([P EXCEPT !.result = Caught(r).result,
                                     !.thrown = Caught(r).thrown])]
             /\ UNCHANGED <<sess, lockHolder>>
  /\ UNCHANGED <<now, frozen, clientVars, hbVars, schedVars, libVars>>

TerminateQuery(r) == \E ok \in BOOLEAN : TerminateStep(r, ok)

\* finally: SELECT pg_advisory_unlock(NS, hashtext(serviceName)); an error of
\* it is ignored.
UnlockStep(r, ok) ==
  /\ ~frozen[r]
  /\ pass[r].pc = "unlock"
  /\ QueryOk(r, ok)
  /\ sess' = Touched(r, ok)
  /\ lockHolder' = IF ok /\ lockHolder[Cfg(r).svc] = r
                   THEN [lockHolder EXCEPT ![Cfg(r).svc] = 0] ELSE lockHolder
  /\ pass' = [pass EXCEPT ![r].log = Append(@, "unlock"), ![r].pc = "done",
                           ![r].kill = <<>>]
  /\ UNCHANGED <<now, frozen, clientVars, hbVars, schedVars, libVars>>

UnlockQuery(r) == \E ok \in BOOLEAN : UnlockStep(r, ok)

(***************************************************************************)
(* ReaperSpec: the passes of one instance over the sessions of arbitrary   *)
(* other owners.                                                           *)
(***************************************************************************)
ReaperNext ==
  \/ Tick
  \/ Connect(1)
  \/ \E p \in Passive : ConnectPassive(p)
  \/ \E p \in Passive \cup {1} : Heartbeat(p)
  \/ \E p \in Passive \cup {1} : Statement(p)
  \/ \E p \in Passive \cup {1} : Disconnect(p)
  \/ Crash(1)
  \/ LockQuery(1)
  \/ ScanQuery(1)
  \/ TerminateQuery(1)
  \/ UnlockQuery(1)

ReaperSpec == Init /\ [][ReaperNext]_vars

(***************************************************************************)
(* LockSpec: the instances of the modelled services connecting and reaping *)
(* concurrently.                                                           *)
(***************************************************************************)
LockNext ==
  \/ Tick
  \/ \E r \in Reapers : Connect(r)
  \/ \E r \in Reapers : Disconnect(r)
  \/ \E r \in Reapers : Crash(r)
  \/ \E r \in Reapers : LockQuery(r)
  \/ \E r \in Reapers : ScanQuery(r)
  \/ \E r \in Reapers : TerminateQuery(r)
  \/ \E r \in Reapers : UnlockQuery(r)

LockSpec == Init /\ [][LockNext]_vars

(***************************************************************************)
(* LockLiveSpec: steady traffic.  Instances connect, reap, disconnect and  *)
(* connect again; the database answers every query on a live session; a    *)
(* worker may be frozen at any point while another instance of its service *)
(* keeps running.  Every step of a running instance is taken eventually.   *)
(***************************************************************************)
\* The next step of a running instance; at most one disjunct is enabled.
Run(r) ==
  \/ Connect(r)
  \/ LockStep(r, Alive(r))
  \/ ScanStep(r, Alive(r))
  \/ TerminateStep(r, Alive(r))
  \/ UnlockStep(r, Alive(r))
  \/ Disconnect(r)
  \/ Recycle(r)

LockLiveNext ==
  \/ Tick
  \/ \E r \in Reapers : Freeze(r)
  \/ \E r \in Reapers : Run(r)

LockLiveFairness == \A r \in Reapers : WF_vars(Run(r))

LockLiveSpec == Init /\ [][LockLiveNext]_vars /\ LockLiveFairness

(***************************************************************************)
(* Properties of the Reaper.                                               *)
(***************************************************************************)
\* The step in which the terminate query of r ends the live session p.
KilledBy(r, p) ==
  /\ pass[r].pc = "terminate" /\ pass'[r].pc # "terminate"
  /\ p \in Range(pass[r].kill)
  /\ Alive(p) /\ sess'[p].st = "dead"

\* The label of p is a lease under the shared secret that has not expired.
Unexpired(p) ==
  LET lease == ParseAndVerify(Secret1, sess[p].label, now)
  IN ~lease.null /\ ~lease.isExpired

\* C1: a reaper never terminates a healthy peer: no session is terminated
\* while the lease in its label is unexpired at the moment of termination.
C1_NoHealthyPeerKilled ==
  [][\A r \in Reapers, p \in Pids : KilledBy(r, p) => ~Unexpired(p)]_reaperVars

\* C2: every pid handed to pg_terminate_backend is the pid of a scanned row
\* that was idle for at least MinIdle and whose label verified under the
\* reaper's secret as an expired lease when it was scanned.
C2_KillSetVerifiedExpiredIdle ==
  \A r \in Reapers :
    pass[r].pc = "terminate" =>
      \A k \in 1..Len(pass[r].kill) :
        \E j \in 1..Len(pass[r].rows) :
          LET row == pass[r].rows[j]
              lease == ParseAndVerify(Secret1, row.application_name, pass[r].scanNow)
          IN /\ row.pid = pass[r].kill[k]
             /\ row.idle_time >= MinIdle
             /\ ~lease.null
             /\ lease.isExpired

C2_Witness ==
  \E r \in Reapers : pass[r].pc = "terminate" /\ Len(pass[r].kill) >= 1

\* r is inside the reaper's critical section: past a granted lock query, not
\* past its unlock query, on a session that is alive.
InCriticalSection(r) == pass[r].pc \in {"scan", "terminate", "unlock"} /\ Alive(r)

\* C3: at most one instance per service is inside the critical section.
C3_OneReaperPerService ==
  \A r1, r2 \in Reapers :
    (r1 # r2 /\ Cfg(r1).svc = Cfg(r2).svc)
      => ~(InCriticalSection(r1) /\ InCriticalSection(r2))

C3_Witness ==
  \E r1, r2 \in Reapers :
    /\ r1 # r2 /\ Cfg(r1).svc = Cfg(r2).svc
    /\ InCriticalSection(r1)
    /\ pass[r2].lockRes = "false"

\* C4: a pass that acquired the lock settles only through its unlock query,
\* on every path, and the outcome of the unlock query does not change what
\* the pass returns or throws.
C4_UnlockOnEveryPath ==
  [][\A r \in Reapers :
       (pass[r].locked /\ pass[r].pc # "done" /\ pass'[r].pc = "done")
         => /\ pass[r].pc = "unlock"
            /\ pass'[r].log = Append(pass[r].log, "unlock")
            /\ pass'[r].result = pass[r].result
            /\ pass'[r].thrown = pass[r].thrown]_reaperVars

C4_Witness ==
  \E r \in Reapers :
    /\ pass[r].pc = "done" /\ pass[r].locked
    /\ pass[r].result.error /\ pass[r].thrown
    /\ pass[r].log = <<"lock", "scan", "terminate", "unlock">>

\* C5: when the lock query answers false the pass returns
\* {locked: false, killed: 0} having issued the lock query alone.
C5_LockBusySkips ==
  \A r \in Reapers :
    pass[r].lockRes = "false" =>
      /\ pass[r].pc = "done"
      /\ pass[r].result = [locked |-> FALSE, killed |-> 0, error |-> FALSE]
      /\ ~pass[r].thrown
      /\ pass[r].log = <<"lock">>

C5_Witness ==
  \E r \in Reapers : pass[r].lockRes = "false" /\ pass[r].pc = "done"

\* C6: every session a reaper terminates carries a lease of the reaper's own
\* service.
C6_SameServiceOnly ==
  [][\A r \in Reapers, p \in Pids :
       KilledBy(r, p) =>
         LET lease == ParseAndVerify(Secret1, sess[p].label, now)
         IN ~lease.null /\ lease.svc = Cfg(r).svc]_reaperVars

\* p is a zombie of a service that has traffic: alive, idle for at least
\* MinIdle, under a lease that verifies and has expired.
Zombie(p) ==
  /\ Alive(p)
  /\ now - sess[p].since >= MinIdle
  /\ LET lease == ParseAndVerify(Secret1, sess[p].label, now)
     IN /\ ~lease.null
        /\ lease.isExpired
        /\ \E r \in Reapers : Cfg(r).svc = lease.svc

\* C7: under steady traffic every zombie is eventually terminated (or stops
\* being one because its owner used it again).
C7_ZombiesEventuallyCollected ==
  \A p \in Reapers : Zombie(p) ~> ~Zombie(p)

(***************************************************************************)
(* AequorClient: connect, the retry loop, the handshake and its generation *)
(* guard, fatal events of sessions, query and clean.  One action per       *)
(* call, per resumed await and per emitted event.                          *)
(***************************************************************************)
Running == {l \in Loops : loops[l].pc # "free"}

HasFresh == \E s \in Sessions : conns[s].st = "none"
Fresh == CHOOSE s \in Sessions :
           conns[s].st = "none" /\ \A t \in 1..(s - 1) : conns[t].st # "none"

HasFreeLoop == Running # Loops
FreeLoopId == CHOOSE l \in Loops : l \notin Running /\ \A m \in 1..(l - 1) : m \in Running

\* The promise of client.end() has settled: the connection is gone.
Gone(s) == conns[s].st \in {"ended", "failed"}

\* query(): `!this._client || this._isDead`.
NeedsConnect == client = 0 \/ isDead

\* connect(): `if (this._connectPromise) return this._connectPromise`.
InFlight_Never == FALSE
InFlight == connectPromise # 0

\* _connect: `this._generation !== gen` is false.
GenerationGuard_Off(gen) == TRUE
GenerationGuard(gen) == generation = gen

Called(op, did, handle, on) ==
  [tick |-> ~call.tick, op |-> op, did |-> did, handle |-> handle, on |-> on]

\* _connect(gen) of loop l up to its first await that waits: the old session
\* is detached and asked to end, or else a new Client is constructed, given
\* its listeners, and its handshake started.
BeginConnect(l, gen, retries) ==
  IF client # 0
  THEN /\ client' = 0
       /\ conns' = [conns EXCEPT ![client].endCalled = TRUE]
       /\ loops' = [loops EXCEPT ![l] = [pc |-> "disposing", gen |-> gen,
                                         s |-> client, retries |-> retries]]
  ELSE /\ HasFresh
       /\ client' = client
       /\ conns' = [conns EXCEPT ![Fresh] = [st |-> "connecting", endCalled |-> FALSE,
                                              gen |-> gen, fatal |-> 0]]
       /\ loops' = [loops EXCEPT ![l] = [pc |-> "handshake", gen |-> gen,
                                         s |-> Fresh, retries |-> retries]]

\* connect(), called by the user (op = "connect") or by query().
DoConnect(op) ==
  IF client # 0 /\ ~isDead
  THEN /\ call' = Called(op, "returned", 0, client)
       /\ UNCHANGED <<client, isDead, generation, connectPromise, loops, conns>>
  ELSE IF InFlight
  THEN /\ call' = Called(op, "joined", connectPromise, 0)
       /\ UNCHANGED <<client, isDead, generation, connectPromise, loops, conns>>
  ELSE /\ generation < MaxGen
       /\ HasFreeLoop
       /\ generation' = generation + 1
       /\ connectPromise' = FreeLoopId
       /\ BeginConnect(FreeLoopId, generation + 1, 0)
       /\ call' = Called(op, "started", FreeLoopId, 0)
       /\ UNCHANGED isDead

ConnectCall ==
  /\ DoConnect("connect")
  /\ UNCHANGED <<reaperVars, schedVars, libVars>>

\* query(): reconnect when there is no usable session, else run on it.
Query ==
  /\ IF NeedsConnect
     THEN DoConnect("query")
     ELSE /\ call' = Called("query", "ran", 0, client)
          /\ UNCHANGED <<client, isDead, generation, connectPromise, loops, conns>>
  /\ UNCHANGED <<reaperVars, schedVars, libVars>>

\* query(): the statement fails with a retryable error; the catch block marks
\* the client dead and disposes of the session.
QueryFail ==
  /\ ~NeedsConnect
  /\ generation < MaxGen
  /\ isDead' = TRUE
  /\ generation' = generation + 1
  /\ client' = 0
  /\ conns' = [conns EXCEPT ![client].endCalled = TRUE]
  /\ call' = Called("query", "failed", 0, client)
  /\ UNCHANGED <<connectPromise, loops>>
  /\ UNCHANGED <<reaperVars, schedVars, libVars>>

\* clean() / end(): _disposeClient('clean').
Clean ==
  /\ generation < MaxGen
  /\ generation' = generation + 1
  /\ client' = 0
  /\ conns' = IF client = 0 THEN conns ELSE [conns EXCEPT ![client].endCalled = TRUE]
  /\ UNCHANGED <<isDead, connectPromise, loops, call>>
  /\ UNCHANGED <<reaperVars, schedVars, libVars>>

HasFreeReap == \E k \in Reaps : reaps[k].pc = "free"
FreeReapId == CHOOSE k \in Reaps :
                reaps[k].pc = "free" /\ \A j \in 1..(k - 1) : reaps[j].pc # "free"

\* _connect: `if (this._reaperEnabled) this._reap()...` on the session s just
\* installed, up to the first await of Reaper.reap: nothing without a lease
\* manager or before _reaperNextRunAt; else a pass starts on s.
Reap(s) ==
  IF ReaperEnabled /\ leaseManager = "set" /\ ~(now < reaperNextRunAt)
  THEN /\ HasFreeReap
       /\ reaps' = [reaps EXCEPT ![FreeReapId] = [pc |-> "running", now |-> now, s |-> s]]
       /\ lastReapAt' = now
       /\ UNCHANGED reaperNextRunAt
  ELSE UNCHANGED <<reaperNextRunAt, reaps, lastReapAt>>

\* _connectWithRetry: `this._safeHook('onConnect', { gen })` once
\* `await this._connect(gen)` has returned.
OnConnect(gen) ==
  emitted' = IF config.onConnect THEN [name |-> "onConnect", gen |-> gen] ELSE emitted

\* The loop's connect() promise settles: `finally { this._connectPromise = null }`.
Finish(l) ==
  /\ loops' = [loops EXCEPT ![l] = FreeLoop]
  /\ connectPromise' = 0

\* `await this._disposeClient('reconnect', ...)` resumes: the old session is
\* gone; the new Client is constructed and its handshake started.
DisposeDone(l) ==
  /\ loops[l].pc = "disposing"
  /\ Gone(loops[l].s)
  /\ HasFresh
  /\ conns' = [conns EXCEPT ![Fresh] = [st |-> "connecting", endCalled |-> FALSE,
                                         gen |-> loops[l].gen, fatal |-> 0]]
  /\ loops' = [loops EXCEPT ![l].pc = "handshake", ![l].s = Fresh]
  /\ UNCHANGED <<client, isDead, generation, connectPromise, call>>
  /\ UNCHANGED <<reaperVars, schedVars, libVars>>

\* `await client.connect()` resolves: the generation guard, then either the
\* stale session is ended or the session is installed and the loop returns.
HandshakeOk(l) ==
  /\ loops[l].pc = "handshake"
  /\ conns[loops[l].s].st = "connecting"
  /\ IF GenerationGuard(loops[l].gen)
     THEN /\ client' = loops[l].s
          /\ isDead' = FALSE
          /\ conns' = [conns EXCEPT ![loops[l].s].st = "open"]
          /\ Reap(loops[l].s)
          /\ OnConnect(loops[l].gen)
          /\ Finish(l)
     ELSE /\ conns' = [conns EXCEPT ![loops[l].s].st = "open",
                                    ![loops[l].s].endCalled = TRUE]
          /\ loops' = [loops EXCEPT ![l].pc = "ending"]
          /\ UNCHANGED <<client, isDead, connectPromise>>
          /\ UNCHANGED <<reaperNextRunAt, reaps, lastReapAt, emitted>>
  /\ UNCHANGED <<generation, call>>
  /\ UNCHANGED <<config, leaseManager>>
  /\ UNCHANGED <<reaperVars, libVars>>

\* `await client.end()` of the stale session settles: _connect returns
\* without installing anything and the loop returns.
EndingDone(l) ==
  /\ loops[l].pc = "ending"
  /\ Gone(loops[l].s)
  /\ OnConnect(loops[l].gen)
  /\ Finish(l)
  /\ UNCHANGED <<client, isDead, generation, conns, call>>
  /\ UNCHANGED <<config, leaseManager, reaperNextRunAt, reaps, lastReapAt>>
  /\ UNCHANGED <<reaperVars, libVars>>

\* `await client.connect()` rejects: _connectWithRetry backs off and retries
\* while the error is retryable, retries are left and the time budget lasts
\* (giveUp is FALSE); otherwise it rethrows.
HandshakeFail(l, giveUp) ==
  /\ loops[l].pc = "handshake"
  /\ conns[loops[l].s].st \in {"connecting", "ended"}
  /\ conns' = [conns EXCEPT ![loops[l].s].st =
                 IF @ = "connecting" THEN "failed" ELSE @]
  /\ IF giveUp \/ loops[l].retries >= MaxRetries
     THEN Finish(l)
     ELSE /\ loops' = [loops EXCEPT ![l].pc = "backoff", ![l].retries = @ + 1]
          /\ UNCHANGED connectPromise
  /\ UNCHANGED <<client, isDead, generation, call>>
  /\ UNCHANGED <<reaperVars, schedVars, libVars>>

\* The backoff timer fires: the next _connect(gen) of the loop.
BackoffDone(l) ==
  /\ loops[l].pc = "backoff"
  /\ BeginConnect(l, loops[l].gen, loops[l].retries)
  /\ UNCHANGED <<isDead, generation, connectPromise, call>>
  /\ UNCHANGED <<reaperVars, schedVars, libVars>>

\* _markDeadAndDispose(s, err, source), the listener of 'error' and 'end' of
\* session s, on the connection state cs.
MarkDeadAndDispose_NoEnd(s, cs) ==
  /\ isDead' = TRUE
  /\ generation' = generation + 1
  /\ client' = IF client = s THEN 0 ELSE client
  /\ conns' = [cs EXCEPT ![s].fatal = @ + 1]
MarkDeadAndDispose(s, cs) ==
  /\ isDead' = TRUE
  /\ generation' = generation + 1
  /\ client' = IF client = s THEN 0 ELSE client
  /\ conns' = [cs EXCEPT ![s].endCalled = TRUE, ![s].fatal = @ + 1]

\* Session s emits 'error'.
ErrorEvent(s) ==
  /\ conns[s].st \in {"connecting", "open"}
  /\ generation < MaxGen
  /\ MarkDeadAndDispose(s, conns)
  /\ UNCHANGED <<connectPromise, loops, call>>
  /\ UNCHANGED <<reaperVars, schedVars, libVars>>

\* connect() is disposing of session s: _connect called end() on it and
\* awaits the close.
Disposing(s) == \E l \in Loops : loops[l].pc = "disposing" /\ loops[l].s = s

\* The connection of session s closes, after end() or by itself; the pg
\* library in use emits 'end' (emits) or closes silently.  The close that a
\* connect attempt awaits is explored at the cap of the counter as well.
EndEvent(s, emits) ==
  /\ conns[s].st \in {"connecting", "open"}
  /\ IF emits
     THEN /\ generation < MaxGen \/ (generation = MaxGen /\ Disposing(s))
          /\ MarkDeadAndDispose(s, [conns EXCEPT ![s].st = "ended"])
     ELSE /\ conns' = [conns EXCEPT ![s].st = "ended"]
          /\ UNCHANGED <<client, isDead, generation>>
  /\ UNCHANGED <<connectPromise, loops, call>>
  /\ UNCHANGED <<reaperVars, schedVars, libVars>>

(***************************************************************************)
(* ClientSpec: one client under arbitrary calls and session events.        *)
(***************************************************************************)
ClientNext ==
  \/ ConnectCall /\ UNCHANGED hbVars
  \/ Query /\ UNCHANGED hbVars
  \/ QueryFail /\ UNCHANGED hbVars
  \/ Clean /\ UNCHANGED hbVars
  \/ \E l \in Loops : DisposeDone(l) /\ UNCHANGED hbVars
  \/ \E l \in Loops : HandshakeOk(l) /\ UNCHANGED hbVars
  \/ \E l \in Loops : EndingDone(l) /\ UNCHANGED hbVars
  \/ \E l \in Loops, giveUp \in BOOLEAN : HandshakeFail(l, giveUp) /\ UNCHANGED hbVars
  \/ \E l \in Loops : BackoffDone(l) /\ UNCHANGED hbVars
  \/ \E s \in Sessions : ErrorEvent(s) /\ UNCHANGED hbVars
  \/ \E s \in Sessions, emits \in BOOLEAN : EndEvent(s, emits) /\ UNCHANGED hbVars

ClientSpec == Init /\ [][ClientNext]_vars

(***************************************************************************)
(* Properties of the client.                                               *)
(***************************************************************************)
\* The handshake of session s resolves in this step.
HandshakeResolves(s) == conns[s].st = "connecting" /\ conns'[s].st = "open"

\* Session s becomes the underlying session in this step.
Installed(s) == client' = s /\ client # s

\* C8: a session whose handshake resolves after the generation has moved
\* past the one its connect() captured is not installed and is ended; a
\* session is installed only as its handshake resolves under the captured
\* generation, and never after it emitted a fatal event.
C8_StaleHandshakeNeverInstalled ==
  [][\A s \in Sessions :
       /\ (HandshakeResolves(s) /\ generation # conns[s].gen)
            => (client' # s /\ conns'[s].endCalled)
       /\ Installed(s)
            => (HandshakeResolves(s) /\ generation = conns[s].gen /\ conns[s].fatal = 0)]_vars

\* A connecting session emitted a fatal event, its handshake resolved all the
\* same, and the loop is ending it instead of installing it.
C8_Witness ==
  \E l \in Loops :
    /\ loops[l].pc = "ending"
    /\ conns[loops[l].s].fatal > 0
    /\ conns[loops[l].s].st = "open"
    /\ client # loops[l].s

\* The listener of session s handles a fatal event in this step.
FatalFrom(s) == conns'[s].fatal = conns[s].fatal + 1

\* C9: a fatal event of a session that is not the current one leaves the
\* current session installed and not marked dead, so that the next query()
\* needs no reconnect.
C9_StaleEventLeavesCurrent ==
  [][\A s \in Sessions :
       (FatalFrom(s) /\ client # 0 /\ client # s /\ ~isDead)
         => (client' = client /\ ~isDead' /\ ~NeedsConnect')]_vars

\* C10: at most one connect loop runs, and the handle names it exactly while
\* it runs; a connect() that finds a loop running returns its handle and
\* changes neither the loops, the sessions nor the generation; a loop that
\* finishes clears the handle.
C10_ConnectSingleFlight ==
  /\ [](/\ Cardinality(Running) <= 1
        /\ connectPromise = 0 <=> Running = {}
        /\ connectPromise # 0 => Running = {connectPromise})
  /\ [][/\ (call'.tick # call.tick /\ Running # {} /\ call'.did # "returned")
             => /\ call'.did = "joined"
                /\ call'.handle = connectPromise
                /\ UNCHANGED <<loops, conns, generation, connectPromise>>
        /\ \A l \in Loops :
             (loops[l].pc # "free" /\ loops'[l].pc = "free") => connectPromise' = 0]_vars

\* A connect() call joined the loop that is awaiting its handshake.
C10_Witness ==
  /\ call.did = "joined"
  /\ call.handle = connectPromise
  /\ connectPromise # 0
  /\ loops[connectPromise].pc = "handshake"

(***************************************************************************)
(* AequorClient.query and the heartbeat.                                   *)
(***************************************************************************)
ErrorKinds == {"transient", "permanent"}

\* RetryStrategy.isRetryable(err), on the class of the error.
IsRetryable_Always(kind) == TRUE
IsRetryable(kind) == kind = "transient"

\* _heartbeatIfNeeded: `this._leaseExp - now`.
LeaseRemaining == leaseExp - now

\* _connect: `this._leaseExp = Date.now() + this._leaseTtlMs` with a lease
\* manager and `this._leaseExp = 0` without, run when the step constructs a
\* new Client.
LeaseAfter ==
  IF \E s \in Sessions : conns[s].st = "none" /\ conns'[s].st = "connecting"
  THEN IF leaseManager = "set" THEN now + LeaseTtl ELSE 0
  ELSE leaseExp

HasFreeBeat == \E h \in Beats : beats[h].pc = "free"
FreeBeatId == CHOOSE h \in Beats :
                beats[h].pc = "free" /\ \A g \in 1..(h - 1) : beats[g].pc # "free"

\* _heartbeatIfNeeded: `if (!this._heartbeatPromise)` is false.
Pending_Never == FALSE
Pending == heartbeatPromise # 0

\* _disposeClient(reason): the generation is raised, the current session
\* detached and asked to end.
DisposeClient_NoDetach ==
  /\ generation' = generation + 1
  /\ client' = client
  /\ conns' = conns
DisposeClient_NoBump ==
  /\ generation' = generation
  /\ client' = 0
  /\ conns' = IF client = 0 THEN conns ELSE [conns EXCEPT ![client].endCalled = TRUE]
DisposeClient ==
  /\ generation' = generation + 1
  /\ client' = 0
  /\ conns' = IF client = 0 THEN conns ELSE [conns EXCEPT ![client].endCalled = TRUE]

\* query() returns res or throws err to its caller, after onQueryEnd or
\* onQueryError; the record keeps the hooks the call emitted.
Returned_NoHook(result, err) ==
  [IdleQuery EXCEPT !.result = result, !.err = err, !.hooks = q.hooks]
Returned(result, err) ==
  [IdleQuery EXCEPT !.result = result, !.err = err,
                    !.hooks = Append(q.hooks, IF result = "ok" THEN "onQueryEnd"
                                              ELSE "onQueryError")]

\* `await this._client.query(...args)` on the current session: the statement
\* is sent.
Send(b) == [b EXCEPT !.pc = "stmt", !.on = client, !.sent = @ + 1, !.err = "none"]

\* _performHeartbeat(gen, client) up to `await Promise.race(...)`: none of the
\* early returns applies to the state it was called in, newExp is computed
\* and the label update sent; the attempt becomes the pending one.
EnsureHeartbeat ==
  IF Pending
  THEN UNCHANGED <<heartbeatPromise, beats>>
  ELSE /\ HasFreeBeat
       /\ heartbeatPromise' = FreeBeatId
       /\ beats' = [beats EXCEPT ![FreeBeatId] =
                      [pc |-> "race", gen |-> generation, s |-> client,
                       newExp |-> now + LeaseTtl]]

\* _heartbeatIfNeeded: `remaining < this._heartbeatHardWaitRemainingMs`.
MustWait_Never == FALSE
MustWait == LeaseRemaining < HeartbeatHard

HeartbeatIfNeeded_AlwaysLeased(b) ==
  IF LeaseRemaining > HeartbeatSoft
  THEN /\ q' = Send(b)
       /\ UNCHANGED <<heartbeatPromise, beats>>
  ELSE /\ EnsureHeartbeat
       /\ q' = IF MustWait
               THEN [b EXCEPT !.pc = "hbwait", !.beat = heartbeatPromise']
               ELSE Send(b)

\* _heartbeatIfNeeded and the statement after it, of a query() whose record
\* is b: nothing without a lease manager or above the soft threshold; else
\* one attempt pending, awaited below the hard threshold and left in the
\* background otherwise.
HeartbeatIfNeeded(b) ==
  IF leaseManager # "set" \/ LeaseRemaining > HeartbeatSoft
  THEN /\ q' = Send(b)
       /\ UNCHANGED <<heartbeatPromise, beats>>
  ELSE /\ EnsureHeartbeat
       /\ q' = IF MustWait
               THEN [b EXCEPT !.pc = "hbwait", !.beat = heartbeatPromise']
               ELSE Send(b)

\* `await this.connect()` of a query() whose record is b, called without a
\* usable session: the loop in flight is awaited, or else a new one started.
AwaitConnect(b) ==
  IF InFlight
  THEN /\ q' = [b EXCEPT !.pc = "connect", !.loop = connectPromise]
       /\ UNCHANGED <<client, generation, connectPromise, loops, conns>>
  ELSE /\ generation < MaxQueryGen \/ (generation = MaxQueryGen /\ cleaned.called)
       /\ HasFreeLoop
       /\ generation' = generation + 1
       /\ connectPromise' = FreeLoopId
       /\ BeginConnect(FreeLoopId, generation + 1, 0)
       /\ q' = [b EXCEPT !.pc = "connect", !.loop = FreeLoopId]

\* One pass of the loop of query(), up to its first await that waits.
Iterate(b) ==
  IF NeedsConnect
  THEN /\ AwaitConnect(b)
       /\ leaseExp' = LeaseAfter
       /\ UNCHANGED <<isDead, call, heartbeatPromise, beats>>
  ELSE /\ HeartbeatIfNeeded(b)
       /\ UNCHANGED <<clientVars, leaseExp>>

\* The user calls query(): onQueryStart, then the first pass of the loop; how
\* the last heartbeat settled is forgotten.
QueryCall ==
  /\ leaseManager # "raised"
  /\ q.pc = "idle"
  /\ Iterate([IdleQuery EXCEPT !.hooks = <<"onQueryStart">>])
  /\ beat' = NoBeat
  /\ UNCHANGED <<hbMode, handler>>
  /\ UNCHANGED <<reaperVars, schedVars, libVars>>

Catch_KeepSession(kind, failed, giveUp) ==
  IF ~IsRetryable(kind) \/ q.retries >= MaxRetries \/ giveUp
  THEN /\ q' = Returned("raised", kind)
       /\ UNCHANGED <<client, isDead, generation, conns>>
  ELSE /\ q' = [q EXCEPT !.pc = "backoff", !.retries = @ + 1, !.on = 0, !.err = kind,
                         !.failedOn = IF failed # 0 THEN failed ELSE @,
                         !.hooks = Append(@, "onQueryRetry")]
       /\ UNCHANGED <<client, isDead, generation, conns>>

\* The catch block of query() on an error of class kind raised for the
\* statement on session failed (0: raised before any statement); giveUp:
\* the time budget is spent.
Catch(kind, failed, giveUp) ==
  IF ~IsRetryable(kind) \/ q.retries >= MaxRetries \/ giveUp
  THEN /\ q' = Returned("raised", kind)
       /\ UNCHANGED <<client, isDead, generation, conns>>
  ELSE /\ generation < MaxQueryGen
       /\ isDead' = TRUE
       /\ DisposeClient
       /\ q' = [q EXCEPT !.pc = IF client = 0 THEN "backoff" ELSE "disposing",
                         !.retries = @ + 1, !.on = client, !.err = kind,
                         !.failedOn = IF failed # 0 THEN failed ELSE @,
                         !.hooks = Append(@, "onQueryRetry")]

\* query() resumes after `await this.connect()` or `await
\* this._heartbeatIfNeeded()`: with the error of the awaited promise in the
\* catch block, else at `this._client.query`, which is a TypeError when no
\* session is installed.
QueryResume(giveUp) ==
  /\ q.pc = "resume"
  /\ IF q.err # "none"
     THEN Catch(q.err, 0, giveUp)
     ELSE IF client = 0
     THEN Catch("permanent", 0, giveUp)
     ELSE /\ q' = Send(q)
          /\ UNCHANGED <<client, isDead, generation, conns>>
  /\ UNCHANGED <<connectPromise, loops, call>>
  /\ UNCHANGED <<hbMode, leaseExp, heartbeatPromise, beats, beat, handler>>
  /\ UNCHANGED <<reaperVars, schedVars, libVars>>

\* The statement of query() resolves.
StatementOk ==
  /\ q.pc = "stmt"
  /\ conns[q.on].st = "open"
  /\ q' = Returned("ok", "none")
  /\ UNCHANGED <<hbMode, leaseExp, heartbeatPromise, beats, beat, handler>>
  /\ UNCHANGED clientVars
  /\ UNCHANGED <<reaperVars, schedVars, libVars>>

\* The statement of query() rejects with an error of class kind.
StatementFail(kind, giveUp) ==
  /\ q.pc = "stmt"
  /\ Catch(kind, q.on, giveUp)
  /\ UNCHANGED <<connectPromise, loops, call>>
  /\ UNCHANGED <<hbMode, leaseExp, heartbeatPromise, beats, beat, handler>>
  /\ UNCHANGED <<reaperVars, schedVars, libVars>>

\* `await this._disposeClient('query_error')` resumes: the backoff sleep.
QueryDisposeDone ==
  /\ q.pc = "disposing"
  /\ Gone(q.on)
  /\ q' = [q EXCEPT !.pc = "backoff", !.on = 0]
  /\ UNCHANGED <<hbMode, leaseExp, heartbeatPromise, beats, beat, handler>>
  /\ UNCHANGED clientVars
  /\ UNCHANGED <<reaperVars, schedVars, libVars>>

\* The backoff timer of query() fires: the next pass of its loop.
QueryBackoffDone ==
  /\ q.pc = "backoff"
  /\ Iterate([q EXCEPT !.err = "none"])
  /\ UNCHANGED <<hbMode, beat, handler>>
  /\ UNCHANGED <<reaperVars, schedVars, libVars>>

\* The promise of heartbeat attempt h settles, rejected with err or resolved
\* ("none"): `.finally(() => { this._heartbeatPromise = null })`, and the
\* query() awaiting it resumes.
Settle(h, err) ==
  /\ beats' = [beats EXCEPT ![h] = FreeBeat]
  /\ heartbeatPromise' = 0
  /\ q' = IF q.pc = "hbwait" /\ q.beat = h
          THEN [q EXCEPT !.pc = "resume", !.err = err, !.beat = 0]
          ELSE q

\* _performHeartbeat: `this._generation === gen && client === this._client`.
LeaseGuard_Off(h) == TRUE
LeaseGuard(h) == generation = beats[h].gen /\ client = beats[h].s

\* _performHeartbeat after the race resolved with a result: the local lease
\* is moved and onHeartbeat emitted when the captured state is still current.
HeartbeatConfirmed(h) ==
  /\ leaseExp' = IF LeaseGuard(h) THEN beats[h].newExp ELSE leaseExp
  /\ beat' = [NoBeat EXCEPT !.how = "confirmed", !.updated = LeaseGuard(h),
                            !.hook = IF LeaseGuard(h) THEN "onHeartbeat" ELSE "none"]
  /\ Settle(h, "none")
  /\ UNCHANGED clientVars

\* The session attempt h was started on has been replaced by another one: a
\* reconnect happened while the attempt was in flight.
Replaced(h) == client # 0 /\ client # beats[h].s

\* The catch block of _performHeartbeat on an error of class kind:
\* onHeartbeatFail, then heartbeatErrorMode.
HeartbeatFailed(h, how, kind) ==
  /\ leaseExp' = leaseExp
  /\ IF hbMode = "throw"
     THEN /\ beat' = [NoBeat EXCEPT !.how = how, !.hook = "onHeartbeatFail",
                                    !.rejected = TRUE,
                                    !.observed = (q.pc = "hbwait" /\ q.beat = h)]
          /\ Settle(h, kind)
          /\ UNCHANGED clientVars
     ELSE IF hbMode = "reconnect"
     THEN /\ generation < MaxQueryGen \/ (generation = MaxQueryGen /\ Replaced(h))
          /\ isDead' = TRUE
          /\ DisposeClient
          /\ beat' = [NoBeat EXCEPT !.how = how, !.hook = "onHeartbeatFail"]
          /\ IF client = 0
             THEN Settle(h, "none")
             ELSE /\ beats' = [beats EXCEPT ![h].pc = "disposing", ![h].s = client]
                  /\ UNCHANGED <<heartbeatPromise, q>>
          /\ UNCHANGED <<connectPromise, loops, call>>
     ELSE /\ beat' = [NoBeat EXCEPT !.how = how, !.hook = "onHeartbeatFail"]
          /\ Settle(h, "none")
          /\ UNCHANGED clientVars

\* The label update of attempt h resolves, with a result (hasRes) or with
\* none: `if (!res) throw`.
HbStatementDone(h, hasRes) ==
  /\ beats[h].pc = "race"
  /\ conns[beats[h].s].st = "open"
  /\ IF hasRes
     THEN HeartbeatConfirmed(h)
     ELSE HeartbeatFailed(h, "empty", "permanent")
  /\ UNCHANGED <<hbMode, handler>>
  /\ UNCHANGED <<reaperVars, schedVars, libVars>>

\* The label update of attempt h rejects.
HbStatementFail(h, kind) ==
  /\ beats[h].pc = "race"
  /\ HeartbeatFailed(h, "failed", kind)
  /\ UNCHANGED <<hbMode, handler>>
  /\ UNCHANGED <<reaperVars, schedVars, libVars>>

HbTimeout_NoTimer(h) ==
  /\ FALSE
  /\ UNCHANGED vars

\* The timer of heartbeatTimeoutMs fires before the label update completes:
\* the race rejects with ETIMEDOUT.
HbTimeout(h) ==
  /\ beats[h].pc = "race"
  /\ HeartbeatFailed(h, "timeout", "transient")
  /\ UNCHANGED <<hbMode, handler>>
  /\ UNCHANGED <<reaperVars, schedVars, libVars>>

\* `await this._disposeClient('heartbeat_failed')` resumes: the attempt
\* resolves.
HbDisposeDone(h) ==
  /\ beats[h].pc = "disposing"
  /\ Gone(beats[h].s)
  /\ Settle(h, "none")
  /\ UNCHANGED <<hbMode, leaseExp, beat, handler>>
  /\ UNCHANGED clientVars
  /\ UNCHANGED <<reaperVars, schedVars, libVars>>

\* The connect() promise awaited by query() settles in this step, rejected
\* with err or resolved ("none"): query() resumes.
Settled(l, err) ==
  q' = IF q.pc = "connect" /\ q.loop = l /\ loops'[l].pc = "free"
       THEN [q EXCEPT !.pc = "resume", !.err = err, !.loop = 0]
       ELSE q

\* A step of connect loop l that settles nothing.
LoopStep(l) ==
  /\ DisposeDone(l) \/ BackoffDone(l)
  /\ leaseExp' = LeaseAfter
  /\ UNCHANGED <<hbMode, heartbeatPromise, beats, q, beat, handler>>

\* A step of connect loop l after which _connect has returned.
LoopReturn(l) ==
  /\ HandshakeOk(l) \/ EndingDone(l)
  /\ Settled(l, "none")
  /\ UNCHANGED <<hbMode, leaseExp, heartbeatPromise, beats, beat, handler>>

\* The handshake of connect loop l rejects with an error of class kind.
LoopFail(l, giveUp, kind) ==
  /\ HandshakeFail(l, giveUp \/ ~IsRetryable(kind))
  /\ Settled(l, kind)
  /\ UNCHANGED <<hbMode, leaseExp, heartbeatPromise, beats, beat, handler>>

EndOutcomes == {"resolves", "rejects", "throws"}

\* _safeHook(name, payload): whether the exception of a throwing hook
\* leaves it.
SafeHook_NoCatch(throws) == throws
SafeHook(throws) == FALSE

\* `try { client.end().catch(() => {}) } catch (_) {}`: whether an end()
\* that throws leaves the block.
BestEffortEnd(outcome) == FALSE

\* The listeners _connect attaches: 'error' passes the error and the source
\* 'error', 'end' passes null and the source 'end'.
SourceOf(hasErr) == IF hasErr THEN "error" ELSE "end"

\* _markDeadAndDispose(client, err, source) of session s: whether the
\* listener throws, whether it ran with a hook that throws or an end() that
\* fails, whether s was the installed session, the source it was called
\* with and the hook it emitted (`if (err) { ... onClientDead ... }`).
Handled(s, hasErr, hookThrows, outcome) ==
  [threw |-> (hasErr /\ SafeHook(hookThrows)) \/ BestEffortEnd(outcome),
   hostile |-> (hasErr /\ hookThrows) \/ outcome # "resolves",
   current |-> client = s,
   source |-> SourceOf(hasErr),
   hook |-> IF hasErr THEN "onClientDead" ELSE "none"]

\* Session s emits 'error'; the onClientDead hook may throw and end() of the
\* session may fail.
ClientError(s, hookThrows, outcome) ==
  /\ ErrorEvent(s)
  /\ handler' = Handled(s, TRUE, hookThrows, outcome)
  /\ UNCHANGED <<hbMode, leaseExp, heartbeatPromise, beats, q, beat>>

\* The connection of session s closes; end() of the session may fail.
ClientEnd(s, emits, hookThrows, outcome) ==
  /\ EndEvent(s, emits)
  /\ handler' = IF emits THEN Handled(s, FALSE, hookThrows, outcome) ELSE handler
  /\ UNCHANGED <<hbMode, leaseExp, heartbeatPromise, beats, q, beat>>

\* Session s emits 'error' while the client serves query().
SessionError(s) ==
  /\ generation < MaxQueryGen
  /\ conns[s].fatal < MaxFatal
  /\ ErrorEvent(s)
  /\ UNCHANGED hbVars

\* The connection of session s closes after end() was called on it.
SessionEnd(s, emits) ==
  /\ emits => generation < MaxQueryGen
  /\ conns[s].endCalled
  /\ EndEvent(s, emits)
  /\ UNCHANGED hbVars

\* clean() / end() called by the user between two query() calls, on an
\* installed session.
UserClean ==
  /\ generation < MaxQueryGen
  /\ client # 0
  /\ q.pc = "idle"
  /\ Clean
  /\ UNCHANGED hbVars

(***************************************************************************)
(* QuerySpec: one client serving query() calls, heartbeats included, under  *)
(* any heartbeatErrorMode.                                                 *)
(***************************************************************************)
QueryInit ==
  /\ DbInit
  /\ ClientInit
  /\ HbInit
  /\ SchedInit(PlainConfig)
  /\ LibInit

QueryNext ==
  \/ Tick
  \/ QueryCall
  \/ \E giveUp \in BOOLEAN : QueryResume(giveUp)
  \/ StatementOk
  \/ \E kind \in ErrorKinds, giveUp \in BOOLEAN : StatementFail(kind, giveUp)
  \/ QueryDisposeDone
  \/ QueryBackoffDone
  \/ \E h \in Beats, hasRes \in BOOLEAN : HbStatementDone(h, hasRes)
  \/ \E h \in Beats, kind \in ErrorKinds : HbStatementFail(h, kind)
  \/ \E h \in Beats : HbTimeout(h)
  \/ \E h \in Beats : HbDisposeDone(h)
  \/ \E l \in Loops : LoopStep(l)
  \/ \E l \in Loops : LoopReturn(l)
  \/ \E l \in Loops, giveUp \in BOOLEAN, kind \in ErrorKinds : LoopFail(l, giveUp, kind)
  \/ \E s \in Sessions : SessionError(s)
  \/ \E s \in Sessions, emits \in BOOLEAN : SessionEnd(s, emits)
  \/ UserClean

QuerySpec == QueryInit /\ [][QueryNext]_vars

(***************************************************************************)
(* FatalSpec: one client under connect() and clean() calls while any of    *)
(* its sessions may emit 'error' or close, with hooks that throw and       *)
(* end() calls that fail.                                                  *)
(***************************************************************************)
\* connect() called by the user.
UserConnect ==
  /\ leaseManager # "raised"
  /\ ConnectCall
  /\ leaseExp' = LeaseAfter
  /\ UNCHANGED <<hbMode, heartbeatPromise, beats, q, beat, handler>>

FatalNext ==
  \/ UserConnect
  \/ UserClean
  \/ \E l \in Loops : LoopStep(l)
  \/ \E l \in Loops : LoopReturn(l)
  \/ \E l \in Loops, giveUp \in BOOLEAN, kind \in ErrorKinds : LoopFail(l, giveUp, kind)
  \/ \E s \in Sessions, hookThrows \in BOOLEAN, outcome \in EndOutcomes :
       ClientError(s, hookThrows, outcome)
  \/ \E s \in Sessions, emits, hookThrows \in BOOLEAN, outcome \in EndOutcomes :
       ClientEnd(s, emits, hookThrows, outcome)

FatalSpec == Init /\ [][FatalNext]_vars

(***************************************************************************)
(* Properties of query() and the heartbeat.                                *)
(***************************************************************************)
\* The step runs the catch block of _performHeartbeat for attempt h.
HbFailStep(h) ==
  beats[h].pc = "race" /\ beats'[h].pc # "race" /\ beat'.hook = "onHeartbeatFail"

\* The step sends the statement of query() to a session.
SendStep == q'.sent = q.sent + 1

\* C11: the generation never decreases, and every step that runs the handler
\* of a fatal event, that retries a failed query, that handles a heartbeat
\* failure under 'reconnect', or that detaches the installed session outside
\* the cleanup of _connect itself (clean() included) strictly increases it.
C11_GenerationMonotone ==
  [][/\ generation' >= generation
     /\ (\E s \in Sessions : FatalFrom(s)) => generation' > generation
     /\ q'.retries = q.retries + 1 => generation' > generation
     /\ (hbMode = "reconnect" /\ \E h \in Beats : HbFailStep(h))
          => generation' > generation
     /\ (/\ client # 0
         /\ client' = 0
         /\ \A l \in Loops : loops'[l].pc = "disposing" => loops[l].pc = "disposing")
          => generation' > generation]_vars

\* After connect(), a query retry and a heartbeat failure under 'reconnect'
\* the generation is 3.
C11_Witness ==
  /\ generation = 3
  /\ q.retries > 0
  /\ hbMode = "reconnect"
  /\ beat.hook = "onHeartbeatFail"

\* C12: a heartbeat attempt moves the local leaseExp, to the expiry it sent,
\* and emits onHeartbeat only when its label update resolved with a result
\* while the generation and the session it captured are still the current
\* ones; an attempt that fails, times out, or completes after a reconnect or
\* a fatal event leaves leaseExp as it was, and nothing but a new session or
\* such an attempt changes leaseExp.
C12_LeaseMovesOnlyWhenConfirmedAndCurrent ==
  [][/\ \A h \in Beats :
          (beats[h].pc = "race" /\ beats'[h].pc # "race")
            => /\ beat'.updated
                    => /\ beat'.how = "confirmed"
                       /\ conns[beats[h].s].st = "open"
                       /\ generation = beats[h].gen
                       /\ client = beats[h].s
                       /\ leaseExp' = beats[h].newExp
               /\ ~beat'.updated => (leaseExp' = leaseExp /\ beat'.hook # "onHeartbeat")
               /\ beat'.how # "confirmed" => ~beat'.updated
     /\ leaseExp' # leaseExp
          => \/ \E s \in Sessions : conns[s].st = "none" /\ conns'[s].st = "connecting"
             \/ \E h \in Beats : beats[h].pc = "race" /\ beats'[h].pc # "race"
                                   /\ beat'.updated]_vars

\* A label update was confirmed by the database after the generation had
\* moved on, and the local lease stayed lower than the expiry it carried.
C12_Witness ==
  /\ beat.how = "confirmed"
  /\ ~beat.updated
  /\ leaseExp <= now

\* C13: at most one heartbeat attempt is pending at any moment and the
\* handle names exactly that attempt; while one is pending no step starts
\* another label update; and the step in which an attempt settles, resolved
\* or rejected, clears the handle.
C13_HeartbeatSingleFlight ==
  /\ [](/\ Cardinality({h \in Beats : beats[h].pc # "free"}) <= 1
        /\ \A h \in Beats : beats[h].pc # "free" <=> heartbeatPromise = h)
  /\ [][/\ heartbeatPromise # 0
             => \A h \in Beats : beats[h].pc = "free" => beats'[h].pc = "free"
        /\ \A h \in Beats :
             (beats[h].pc # "free" /\ beats'[h].pc = "free") => heartbeatPromise' = 0]_vars

\* A query() in the hard-wait zone awaits an attempt that an earlier query()
\* had started in the background.
C13_Witness ==
  /\ q.pc = "hbwait"
  /\ heartbeatPromise = q.beat
  /\ beats[q.beat].pc = "race"
  /\ leaseExp - (beats[q.beat].newExp - LeaseTtl) >= HeartbeatHard

\* A pass of the loop of query() starts in this step.
PassStep == q.pc \in {"idle", "backoff"} /\ q'.pc \notin {"idle", "backoff"}

\* C14: a pass of query() that finds a usable session with less than
\* heartbeatHardWaitRemainingMs of lease left sends no statement and awaits
\* the pending heartbeat attempt; while it waits the attempt is pending, and
\* it leaves the wait, still without having sent, only in the step in which
\* the attempt settles; a pass that finds more than heartbeatSoftRemainingMs
\* left starts no heartbeat.
C14_HardZoneAwaitsHeartbeat ==
  /\ [](q.pc = "hbwait" => (q.beat # 0 /\ beats[q.beat].pc # "free"))
  /\ [][/\ (PassStep /\ ~NeedsConnect /\ LeaseRemaining < HeartbeatHard)
             => /\ q'.pc = "hbwait"
                /\ q'.sent = q.sent
                /\ heartbeatPromise' # 0
                /\ q'.beat = heartbeatPromise'
        /\ (q.pc = "hbwait" /\ q'.pc # "hbwait")
             => /\ beats'[q.beat].pc = "free"
                /\ q'.pc = "resume"
                /\ q'.sent = q.sent
        /\ (PassStep /\ ~NeedsConnect /\ LeaseRemaining > HeartbeatSoft)
             => UNCHANGED <<heartbeatPromise, beats>>]_vars

\* A query() found its lease below the hard threshold and waits, nothing
\* sent, for the attempt it started.
C14_Witness ==
  /\ q.pc = "hbwait"
  /\ q.sent = 0
  /\ LeaseRemaining < HeartbeatHard
  /\ beats[q.beat].pc = "race"

\* C15: under 'reconnect', the step that handles a heartbeat failure marks
\* the client dead, detaches the installed session and calls end() on it,
\* and raises the generation; a query() called after it, finding the client
\* dead, awaits connect() and sends nothing before; and a statement is only
\* ever sent to the installed session, which end() was never called on, so
\* never to the session that was disposed of.
C15_HeartbeatFailureReconnects ==
  /\ [](client # 0 => (conns[client].st # "none" /\ ~conns[client].endCalled))
  /\ [][/\ (hbMode = "reconnect" /\ \E h \in Beats : HbFailStep(h))
             => /\ isDead'
                /\ client' = 0
                /\ NeedsConnect'
                /\ generation' > generation
                /\ client # 0 => conns'[client].endCalled
        /\ (PassStep /\ NeedsConnect)
             => (q'.pc = "connect" /\ q'.sent = q.sent)
        /\ SendStep
             => /\ q'.on = client'
                /\ client' # 0
                /\ ~conns'[client'].endCalled]_vars

\* While the attempt that failed still awaits the end of the session it
\* disposed of, a later query() call has reconnected and runs its statement
\* on a newer session.
C15_Witness ==
  /\ hbMode = "reconnect"
  /\ beat.hook = "none"
  /\ q.pc = "stmt"
  /\ q.retries = 0
  /\ \E h \in Beats : /\ beats[h].pc = "disposing"
                       /\ conns[beats[h].s].endCalled
                       /\ q.on > beats[h].s

(***************************************************************************)
(* HbLiveSpec: QuerySpec with the timers and the closing of sessions fair:  *)
(* the heartbeat timer fires, a session asked to end closes, and the        *)
(* attempt waiting for that resumes.                                       *)
(***************************************************************************)
HbProgress(h) == HbTimeout(h) \/ HbDisposeDone(h)

Closes(s) == \E emits \in BOOLEAN : SessionEnd(s, emits)

HbLiveFairness ==
  WF_vars((\E h \in Beats : HbProgress(h)) \/ (\E s \in Sessions : Closes(s)))

HbLiveSpec == QueryInit /\ [][QueryNext]_vars /\ HbLiveFairness

\* C16: an attempt whose label update is pending does not stay in flight for
\* ever: it settles (as far as the generation stays below the bound of the
\* exploration); and the step in which the timer wins the race is handled as
\* a failure: leaseExp stays, onHeartbeatFail is emitted, and the mode is
\* applied: 'throw' rejects the attempt, 'reconnect' marks the client dead,
\* disposes of the session and raises the generation, 'swallow' resolves the
\* attempt and leaves the client as it is.
C16_HeartbeatTimeoutIsFailure ==
  /\ (heartbeatPromise # 0 /\ beats[heartbeatPromise].pc = "race")
       ~> (heartbeatPromise = 0 \/ generation = MaxQueryGen)
  /\ [][\A h \in Beats :
          (beats[h].pc = "race" /\ beats'[h].pc # "race" /\ beat'.how = "timeout")
            => /\ beat'.hook = "onHeartbeatFail"
               /\ leaseExp' = leaseExp
               /\ hbMode = "throw"
                    => (beat'.rejected /\ beats'[h].pc = "free" /\ heartbeatPromise' = 0)
               /\ hbMode = "reconnect"
                    => (isDead' /\ client' = 0 /\ generation' > generation)
               /\ hbMode = "swallow"
                    => /\ ~beat'.rejected
                       /\ beats'[h].pc = "free"
                       /\ UNCHANGED <<client, isDead, generation>>]_vars

\* Under 'reconnect' an attempt timed out and has settled: the client is
\* dead and a session it had is closed.
C16_Witness ==
  /\ hbMode = "reconnect"
  /\ beat.how = "timeout"
  /\ heartbeatPromise = 0
  /\ isDead
  /\ \E s \in Sessions : conns[s].endCalled /\ Gone(s)

\* C17: under 'throw', a heartbeat attempt that settles by rejection is
\* awaited by a query() at that moment, which receives the error: no
\* rejection is left without a caller observing it.
C17_ThrowObservedAtCallSite ==
  (hbMode = "throw" /\ beat.rejected) => beat.observed

\* C18: one query() call sends its statement at most retries+1 times, one
\* more than the retries it has counted; and the step in which the statement
\* fails with an error that is not transient, or fails with every retry
\* used, raises the error to the caller at once, touching neither the
\* session nor the generation, and sends nothing again.
C18_BoundedRetries ==
  /\ [](q.retries <= MaxRetries /\ q.sent <= q.retries + 1)
  /\ [][(q.pc = "stmt" /\ q'.pc # "stmt"
           /\ (q'.err = "permanent" \/ (q'.err = "transient" /\ q.retries = MaxRetries)))
          => /\ q'.pc = "idle"
             /\ q'.result = "raised"
             /\ UNCHANGED <<client, isDead, generation, conns>>]_vars

\* The last statement a query() call may send is in flight: every retry has
\* been used.
C18_Witness ==
  /\ q.pc = "stmt"
  /\ q.retries = MaxRetries
  /\ q.sent = MaxRetries + 1

\* C19: the step in which a statement fails with a transient error that is
\* retried marks the client dead, detaches the session, raises the generation
\* and leaves end() called on the session that failed, all before the
\* backoff sleep, during which the client stays dead with no session; and the
\* statement is next sent to another session, built by a connect started
\* after the failure.
C19_RetryOnNewSession ==
  /\ []((q.pc \in {"disposing", "backoff"})
          => /\ isDead
             /\ client = 0
             /\ q.failedOn # 0 => conns[q.failedOn].endCalled)
  /\ [][/\ (q.pc = "stmt" /\ q'.retries = q.retries + 1)
             => /\ isDead'
                /\ client' = 0
                /\ generation' > generation
                /\ conns'[q.on].endCalled
                /\ q'.pc \in {"disposing", "backoff"}
                /\ q'.failedOn = q.on
                /\ q'.sent = q.sent
        /\ (q.pc = "disposing" /\ q'.pc = "backoff") => Gone(q.on)
        /\ (SendStep /\ q.failedOn # 0)
             => /\ q'.on # q.failedOn
                /\ q'.on > q.failedOn
                /\ conns'[q'.on].gen > conns'[q.failedOn].gen]_vars

\* The retried statement runs on a session connected after the one that
\* failed was closed.
C19_Witness ==
  /\ q.pc = "stmt"
  /\ q.retries > 0
  /\ q.failedOn # 0
  /\ q.on > q.failedOn
  /\ Gone(q.failedOn)

\* C20: a step that runs the listener of a fatal event of any session, with
\* or without an error object, of the installed or of a stale session, with
\* a hook that throws or an end() that rejects or throws, lets no exception
\* out of the listener, and leaves the client dead with a higher generation.
C20_FatalEventNeverThrows ==
  [][\A s \in Sessions :
       FatalFrom(s) => (~handler'.threw /\ isDead' /\ generation' > generation)]_vars

\* The listener has run for a stale session with a throwing hook or a
\* failing end(), while another session is installed.
C20_Witness ==
  /\ handler.hostile
  /\ ~handler.current
  /\ ~handler.threw
  /\ client # 0
  /\ isDead
(***************************************************************************)
(* Properties of the hooks.                                                *)
(***************************************************************************)
\* C21: every fatal event of a session, 'error' as well as 'end', emits
\* onClientDead with source set to the kind of the event.
C21_ClientDeadOnEveryFatalEvent ==
  [][\A s \in Sessions :
       FatalFrom(s) => /\ handler'.hook = "onClientDead"
                       /\ handler'.source \in {"error", "end"}]_vars
\* The hooks of a query() call that has retried k times and not returned.
HooksSoFar(k) == [i \in 1..(k + 1) |-> IF i = 1 THEN "onQueryStart" ELSE "onQueryRetry"]

ReapOutcomes == {"locked", "busy", "error"}

\* `await Reaper.reap(...)` of the _reap() call k settles: with a result that
\* holds the lock or found it busy, or with an error, which Reaper.reap
\* returns as a result under 'swallow' and throws under 'throw'.  A result
\* schedules the next run from the `now` the call captured; the catch block
\* only logs.  No hook is emitted on either path.
ReapSettles(k, outcome, extra) ==
  /\ reaps[k].pc = "running"
  /\ outcome # "error" => conns[reaps[k].s].st = "open"
  /\ reaps' = [reaps EXCEPT ![k] = FreeReap]
  /\ reaperNextRunAt' = IF outcome = "error" /\ config.reaperErrorMode = "throw"
                        THEN reaperNextRunAt
                        ELSE reaps[k].now + ReaperCooldown + extra
  /\ UNCHANGED <<config, leaseManager, lastReapAt, emitted>>
  /\ UNCHANGED <<reaperVars, clientVars, hbVars, libVars>>

\* clean() / end() called by the user at any time.
CleanCall ==
  /\ generation < MaxQueryGen
  /\ Clean
  /\ UNCHANGED hbVars

SchedConfigs ==
  {cfg \in Configs : cfg.secret = MinSecretBytes /\ cfg.reaper /\ cfg.onConnect
                     /\ cfg.leaseMode = "required"}

SchedSpecInit ==
  /\ DbInit
  /\ ClientInit
  /\ HbInit
  /\ hbMode = "reconnect"
  /\ \E cfg \in SchedConfigs : SchedInit(cfg)
  /\ LibInit

SchedNext ==
  \/ Tick
  \/ UserConnect
  \/ CleanCall
  \/ \E l \in Loops : LoopStep(l)
  \/ \E l \in Loops : LoopReturn(l)
  \/ \E l \in Loops, giveUp \in BOOLEAN, kind \in ErrorKinds : LoopFail(l, giveUp, kind)
  \/ \E s \in Sessions : SessionError(s)
  \/ \E s \in Sessions, emits \in BOOLEAN : SessionEnd(s, emits)
  \/ \E k \in Reaps, outcome \in ReapOutcomes, extra \in 0..MaxExtra :
       ReapSettles(k, outcome, extra)

SchedSpec == SchedSpecInit /\ [][SchedNext]_vars

\* C23: onConnect{gen} is emitted only when a connection was established: in
\* the step that emits it, a session connected for generation gen is the
\* client's underlying session.
C23_OnConnectOnlyWhenInstalled ==
  [][emitted' # emitted /\ emitted'.name = "onConnect"
       => /\ client' # 0
          /\ conns'[client'].st = "open"
          /\ conns'[client'].gen = emitted'.gen]_vars

\* The _reap() call k settles in this step: its pass was attempted.
Attempted(k) == reaps[k].pc = "running" /\ reaps'[k].pc = "free"

\* C24: every reaper pass a client attempts emits onReap, with the
\* generation, locked flag and killed count of the pass.
C24_OnReapForEveryPass ==
  [][\A k \in Reaps :
       Attempted(k) => (emitted' # emitted /\ emitted'.name = "onReap")]_vars

\* The sessions of the client whose handshake succeeded and that are still
\* open without end() having been called on them.
Held == {s \in Sessions : conns[s].st = "open" /\ ~conns[s].endCalled}

\* C25: a client holds at most one connection: at most one session whose
\* handshake succeeded is open without a close requested, it is the
\* underlying one, and every other open session has had end() called.
C25_AtMostOneConnection ==
  /\ Cardinality(Held) <= 1
  /\ \A s \in Sessions :
       (conns[s].st = "open" /\ s # client) => conns[s].endCalled

\* Two sessions are open: the underlying one, and an older one on which
\* end() was called and whose connection has not closed yet.
C25_Witness ==
  /\ client # 0
  /\ client \in Held
  /\ \E s \in Sessions : s # client /\ conns[s].st = "open" /\ conns[s].endCalled

(***************************************************************************)
(* OptionalSpec: clients constructed without a usable coordinationSecret   *)
(* (none, or one shorter than 16 bytes) under either leaseMode, serving    *)
(* connect(), query() and clean() calls.                                   *)
(***************************************************************************)
OptionalConfigs ==
  {cfg \in Configs : cfg.secret < MinSecretBytes /\ cfg.reaper /\ ~cfg.onConnect
                     /\ cfg.reaperErrorMode = "swallow"}

OptionalInit ==
  /\ DbInit
  /\ ClientInit
  /\ HbInit
  /\ hbMode = "reconnect"
  /\ \E cfg \in OptionalConfigs : SchedInit(cfg)
  /\ LibInit

OptionalNext ==
  \/ Tick
  \/ UserConnect
  \/ QueryCall
  \/ \E giveUp \in BOOLEAN : QueryResume(giveUp)
  \/ StatementOk
  \/ \E kind \in ErrorKinds, giveUp \in BOOLEAN : StatementFail(kind, giveUp)
  \/ QueryDisposeDone
  \/ QueryBackoffDone
  \/ \E l \in Loops : LoopStep(l)
  \/ \E l \in Loops : LoopReturn(l)
  \/ \E l \in Loops, giveUp \in BOOLEAN, kind \in ErrorKinds : LoopFail(l, giveUp, kind)
  \/ \E s \in Sessions : SessionError(s)
  \/ \E s \in Sessions, emits \in BOOLEAN : SessionEnd(s, emits)
  \/ UserClean

OptionalSpec == OptionalInit /\ [][OptionalNext]_vars

PassStarts == \E k \in Reaps : reaps[k].pc = "free" /\ reaps'[k].pc = "running"

\* C27: once a reaper pass of the client has started, no further pass
\* starts before reaperCooldownMs has elapsed, whatever the outcome of the
\* first and whether or not the client reconnected while it ran.
C27_CooldownBetweenPasses ==
  [][PassStarts => (lastReapAt = -1 \/ now >= lastReapAt + ReaperCooldown)]_vars

\* The connection of the prior session, which _connect of loop l called
\* end() on and awaits, closes in this step.
PriorCloses(l) ==
  /\ loops[l].pc = "disposing"
  /\ conns[loops[l].s].st = "open"
  /\ conns'[loops[l].s].st = "ended"

\* C28: the dispose of the prior session at the start of a connect attempt
\* does not change the generation: its close, the 'end' event of it
\* included, leaves the generation at the value connect() captured.
C28_DisposeKeepsGeneration ==
  [][\A l \in Loops :
       (PriorCloses(l) /\ generation = loops[l].gen) => generation' = loops[l].gen]_vars

(***************************************************************************)
(* SelectSpec: one pass of instance 1 over a database that holds any       *)
(* sessions of its service: each peer is absent or idle since some moment  *)
(* up to now, under a lease written no later than that moment.  There are  *)
(* up to MaxKill + 1 peers, one more than a pass may terminate.            *)
(***************************************************************************)
Min(a, b) == IF a < b THEN a ELSE b

PeerPids == 2..Min(MaxKill + 2, NumReapers + NumPassive)

PeerSessions(t) ==
  {NoSession} \cup
  UNION {{[st |-> "idle", since |-> s, owner |-> OwnerOf(1),
           label |-> GenerateAppName(Cfg(1).svc, <<"i">>, Secret1, e)]
          : e \in 0..(s + LeaseTtl)} : s \in 0..t}

SelectInit ==
  /\ now \in 0..MaxTime
  /\ \E peers \in [PeerPids -> PeerSessions(now)] :
       sess = [p \in Pids |->
                 IF p = 1
                 THEN [st |-> "idle", since |-> now, owner |-> OwnerOf(1),
                       label |-> InitialLabel(OwnerOf(1), 1)]
                 ELSE IF p \in PeerPids THEN peers[p] ELSE NoSession]
  /\ lockHolder = [s \in Services |-> 0]
  /\ pass = [r \in Reapers |-> IF r = 1 THEN [IdlePass EXCEPT !.pc = "lock"] ELSE IdlePass]
  /\ frozen = [r \in Reapers |-> FALSE]
  /\ ClientInit
  /\ HbInit
  /\ hbMode = "reconnect"
  /\ SchedInit(PlainConfig)
  /\ LibInit

SelectNext ==
  \/ LockQuery(1)
  \/ ScanQuery(1)
  \/ TerminateQuery(1)
  \/ UnlockQuery(1)

SelectSpec == SelectInit /\ [][SelectNext]_vars

\* The zombie candidates of the scan that the pass of instance 1 holds.
Zombies ==
  {Candidate(pass[1].rows[k], pass[1].scanNow) :
     k \in {j \in 1..Len(pass[1].rows) : IsCandidate(pass[1].rows[j], pass[1].scanNow)}}

\* c comes before d in the order (exp ascending, idle_time descending, pid
\* ascending).
Precedes(c, d) ==
  \/ c.exp < d.exp
  \/ c.exp = d.exp /\ c.idle_time > d.idle_time
  \/ c.exp = d.exp /\ c.idle_time = d.idle_time /\ c.pid < d.pid

\* C29: the pids a pass terminates are the first min(n, maxIdleConnectionsToKill)
\* of its n zombie candidates in the order (exp ascending, idle_time
\* descending, pid ascending): no more than maxIdleConnectionsToKill, no
\* unselected candidate before a selected one, and `killed` is their number.
C29_KillsTheStalestFirst ==
  /\ pass[1].pc = "terminate" =>
       LET selected == {c \in Zombies : c.pid \in Range(pass[1].kill)}
       IN /\ Len(pass[1].kill) = Min(Cardinality(Zombies), MaxKill)
          /\ Cardinality(selected) = Len(pass[1].kill)
          /\ \A c \in selected : \A d \in Zombies \ selected : ~Precedes(d, c)
  /\ (pass[1].pc = "unlock" /\ pass[1].kill # <<>> /\ ~pass[1].result.error) =>
       /\ pass[1].result.killed = Len(pass[1].kill)
       /\ \A p \in Pids : sess[p].st = "dead" <=> p \in Range(pass[1].kill)

\* More candidates than the limit, of different expiry.
C29_Witness ==
  /\ pass[1].pc = "terminate"
  /\ Cardinality(Zombies) > MaxKill
  /\ \E c, d \in Zombies : c.exp < d.exp /\ c.idle_time < d.idle_time

\* The lock, scan or terminate query of the pass of r raises in this step.
PassQueryRaises(r) ==
  \/ LockStep(r, FALSE)
  \/ ScanStep(r, FALSE)
  \/ TerminateStep(r, FALSE)

APP_NAME_MAX_LEN == 63
SIG_LEN == 11
TS_LEN == 13      \* digits of a millisecond timestamp
HASH_LEN == 8

LETTERS ==
  {"a", "b", "c", "d", "e", "f", "g", "h", "i", "j", "k", "l", "m", "n", "o", "p", "q",
   "r", "s", "t", "u", "v", "w", "x", "y", "z", "A", "B", "C", "D", "E", "F", "G", "H",
   "I", "J", "K", "L", "M", "N", "O", "P", "Q", "R", "S", "T", "U", "V", "W", "X", "Y",
   "Z"}

\* _sanitizeToken: replace(/[^a-zA-Z0-9:_-]/g, '_').
SanitizeToken(s) ==
  [k \in 1..Len(s) |->
     IF s[k] \in LETTERS \/ IsDigit(s[k]) \/ s[k] \in {":", "_", "-"} THEN s[k] ELSE "_"]

HEX == <<"0", "1", "2", "3", "4", "5", "6", "7", "8", "9", "a", "b", "c", "d", "e", "f">>

\* sha1(original).digest('hex').slice(0, 8), as some function of the text
\* that yields eight hex digits.
Hash8(original) ==
  LET odd == Cardinality({k \in 1..Len(original) : original[k] \notin LETTERS})
  IN [k \in 1..HASH_LEN |-> HEX[((Len(original) * k + odd) % 16) + 1]]

Max(a, b) == IF a > b THEN a ELSE b

OrDefault(s, d) == IF s = <<>> THEN d ELSE s

\* _normalizeServiceName(serviceName, instanceId).
NormalizeServiceName(serviceName, instanceId) ==
  LET original == OrDefault(serviceName, <<"s", "l", "s", "_", "p", "g">>)
      raw == SanitizeToken(original)
      inst == SanitizeToken(OrDefault(instanceId, <<"i", "n", "s", "t">>))
      overhead == 24 + Len(inst) + SIG_LEN
      maxSvcLen == Max(1, APP_NAME_MAX_LEN - overhead)
      needsHash == raw # original
      hash == Hash8(original)
      prefixLen == maxSvcLen - (Len(hash) + 1)
  IN IF ~needsHash /\ Len(raw) <= maxSvcLen THEN raw
     ELSE IF maxSvcLen <= Len(hash) THEN SubSeq(hash, 1, maxSvcLen)
     ELSE SubSeq(raw, 1, Min(prefixLen, Len(raw))) \o <<"-">> \o hash

\* new LeaseManager(serviceName, instanceId, secret), the secret being long
\* enough.
NewLeaseManager(serviceName, instanceId, secret) ==
  Bind(SanitizeToken(OrDefault(instanceId, <<"i", "n", "s", "t">>)), LAMBDA inst :
    [instanceId |-> inst, secret |-> secret,
     serviceName |-> NormalizeServiceName(OrDefault(serviceName, <<"s", "l", "s", "_", "p", "g">>),
                                          inst)])

\* result.length in generateAppName for a timestamp of TS_LEN digits: the
\* signature has SIG_LEN characters whatever the text.
ResultLength(m) ==
  Len(LeaseBase(m.serviceName, m.instanceId, <<>>)) + TS_LEN + 3 + SIG_LEN

\* generateAppName(expirationTs) of manager m: the label, or the throw when
\* it is longer than APP_NAME_MAX_LEN.
GenerateAppNameCall(m, expirationTs) ==
  IF ResultLength(m) > APP_NAME_MAX_LEN
  THEN [called |-> TRUE, exp |-> expirationTs, raised |-> TRUE, text |-> <<>>,
        length |-> ResultLength(m)]
  ELSE [called |-> TRUE, exp |-> expirationTs, raised |-> FALSE,
        text |-> GenerateAppName(m.serviceName, m.instanceId, m.secret, expirationTs),
        length |-> ResultLength(m)]

\* The raw names given to the constructor: up to MaxNameLen characters, kept
\* by _sanitizeToken or ending in a character it replaces.
Rep(c, n) == [k \in 1..n |-> c]

\* The characters a label of APP_NAME_MAX_LEN leaves to the service name and
\* the instance id together.
Room == APP_NAME_MAX_LEN - 24 - SIG_LEN

\* The lengths of the raw names: none, one, around the length of a hash
\* suffix, half of the room, around the whole room, and the longest.
NameLens ==
  {0, 1, HASH_LEN, HASH_LEN + 1, Room \div 2, Room - 1, Room, MaxNameLen} \cap 0..MaxNameLen

RawNames ==
  {Rep("a", n) : n \in NameLens}
    \cup {Rep("a", n - 1) \o <<";">> : n \in NameLens \ {0}}

LeaseInit ==
  /\ DbInit
  /\ ClientInit
  /\ HbInit
  /\ hbMode = "reconnect"
  /\ SchedInit(PlainConfig)
  /\ \E serviceName \in RawNames, instanceId \in RawNames :
       lm = NewLeaseManager(serviceName, instanceId, Secret1)
  /\ minted = NoMint
  /\ parsed = NoParse
  /\ retry = NoRetry
  /\ q2 = IdleSecond
  /\ cleaned = NoClean
  /\ labels = [s \in Sessions |-> 0]

Expiries == ExpBase..(ExpBase + MaxTime)
Times == (ExpBase - 1)..(ExpBase + MaxTime + 1)

\* lm.generateAppName(e): a new label, not parsed yet.
Mint(e) ==
  /\ minted' = GenerateAppNameCall(lm, e)
  /\ parsed' = NoParse
  /\ UNCHANGED <<lm, retry, q2, cleaned, labels>>
  /\ UNCHANGED <<reaperVars, clientVars, hbVars, schedVars>>

\* lm.parseAndVerify(label) at time t, on the label generateAppName returned;
\* each label is parsed once.
Verify(t) ==
  /\ minted.called /\ ~minted.raised /\ ~parsed.called
  /\ parsed' = [called |-> TRUE, input |-> "minted", text |-> minted.text, at |-> t,
                result |-> ParseAndVerify(lm.secret, minted.text, t)]
  /\ UNCHANGED <<lm, minted, retry, q2, cleaned, labels>>
  /\ UNCHANGED <<reaperVars, clientVars, hbVars, schedVars>>

\* The positions of the label inside the values of its s=, i= and e= fields.
FieldPositions(text) ==
  {k \in 1..Len(text) :
     LET before == {j \in 1..(k - 1) : text[j] = ";"}
         last == IF before = {} THEN 0 ELSE CHOOSE j \in before : \A i \in before : i <= j
     IN text[k] # ";" /\ Cardinality(before) <= 2 /\ k - last >= 3}

TamperChars == {"x", "7", ";"}

\* lm.parseAndVerify on the returned label with the character at position k
\* of a field replaced by c, the signature kept.
VerifyTampered(k, c) ==
  /\ minted.called /\ ~minted.raised /\ ~parsed.called
  /\ minted.text[k] # c
  /\ LET fake == [minted.text EXCEPT ![k] = c]
     IN parsed' = [called |-> TRUE, input |-> "tampered", text |-> fake, at |-> minted.exp,
                   result |-> ParseAndVerify(lm.secret, fake, minted.exp)]
  /\ UNCHANGED <<lm, minted, retry, q2, cleaned, labels>>
  /\ UNCHANGED <<reaperVars, clientVars, hbVars, schedVars>>

\* lm.parseAndVerify on the label that a manager of the same names holding
\* another secret minted for the same expiry.
VerifyForeign ==
  /\ minted.called /\ ~minted.raised /\ ~parsed.called
  /\ LET other == GenerateAppName(lm.serviceName, lm.instanceId, Secret2, minted.exp)
     IN parsed' = [called |-> TRUE, input |-> "foreign", text |-> other, at |-> minted.exp,
                   result |-> ParseAndVerify(lm.secret, other, minted.exp)]
  /\ UNCHANGED <<lm, minted, retry, q2, cleaned, labels>>
  /\ UNCHANGED <<reaperVars, clientVars, hbVars, schedVars>>

LeaseNext ==
  \/ \E e \in Expiries : Mint(e)
  \/ \E t \in Times : Verify(t)
  \/ \E k \in FieldPositions(minted.text), c \in TamperChars : VerifyTampered(k, c)
  \/ VerifyForeign

LeaseSpec == LeaseInit /\ [][LeaseNext]_vars

\* C31: for every service name and instance id, generateAppName returns a
\* label of at most 63 characters, it does not throw, and parseAndVerify on
\* the label returns a result whose inst is the sanitized instance id.
C31_LabelFitsForAllNames ==
  /\ minted.called => ~minted.raised /\ minted.length <= APP_NAME_MAX_LEN
  /\ (parsed.called /\ parsed.input = "minted") =>
       ~parsed.result.null /\ parsed.result.inst = lm.instanceId

\* C32: parseAndVerify on the label generateAppName(e) returned, by the same
\* manager, returns a result with exp = e, with the manager's service name
\* and instance id, and with isExpired true exactly when now > e.
C32_RoundTrip ==
  (parsed.called /\ parsed.input = "minted") =>
    /\ ~parsed.result.null
    /\ parsed.result.exp = minted.exp
    /\ parsed.result.svc = lm.serviceName
    /\ parsed.result.inst = lm.instanceId
    /\ parsed.result.isExpired <=> parsed.at > minted.exp

\* A label of a two-digit expiry, under a service name longer than a hash
\* suffix, parsed after its expiry.
C32_Witness ==
  /\ parsed.called /\ parsed.input = "minted"
  /\ minted.exp >= 10
  /\ parsed.at > minted.exp
  /\ parsed.result.isExpired
  /\ Len(lm.serviceName) > HASH_LEN + 1

\* C33: parseAndVerify returns null for a label that was not signed over its
\* own base with the local secret: a valid label with one character of its
\* s=, i= or e= field changed and the signature kept, and a label minted
\* under another secret.
C33_ForgedLabelIsNull ==
  (parsed.called /\ parsed.input \in {"tampered", "foreign"}) => parsed.result.null

\* A label whose expiry was changed to another number was parsed.
C33_Witness ==
  /\ parsed.called /\ parsed.input = "tampered"
  /\ Len(SplitOn(parsed.text, ";")) = 4
  /\ ~ParseInt(FieldVal(SplitOn(parsed.text, ";")[3])).nan
  /\ ParseInt(FieldVal(SplitOn(parsed.text, ";")[3])).val # minted.exp
  /\ FieldVal(SplitOn(parsed.text, ";")[1]) = lm.serviceName

(***************************************************************************)
(* RetryStrategy on its own: isRetryable over errors of any code, sqlstate *)
(* and message, getBackoff over any base, cap, previous delay and draw of  *)
(* Math.random().                                                          *)
(***************************************************************************)
\* The transport codes isRetryable names.
TransportCodes ==
  {<<"E", "C", "O", "N", "N", "R", "E", "S", "E", "T">>,
   <<"E", "P", "I", "P", "E">>,
   <<"E", "T", "I", "M", "E", "D", "O", "U", "T">>,
   <<"E", "C", "O", "N", "N", "R", "E", "F", "U", "S", "E", "D">>,
   <<"E", "N", "E", "T", "U", "N", "R", "E", "A", "C", "H">>,
   <<"E", "H", "O", "S", "T", "U", "N", "R", "E", "A", "C", "H">>,
   <<"E", "A", "I", "_", "A", "G", "A", "I", "N">>,
   <<"E", "C", "O", "N", "N", "A", "B", "O", "R", "T", "E", "D">>,
   <<"E", "A", "D", "D", "R", "I", "N", "U", "S", "E">>}

\* Further values of err.code and err.sqlstate: SQLSTATEs inside and outside
\* the classes isRetryable names, strings that only begin like them, and a
\* transport code it does not name.
OtherCodes ==
  {<<"0", "8", "0", "0", "6">>, <<"0", "8", "0", "0", "3">>,
   <<"0", "8", "0", "0", "0">>, <<"0", "8">>,
   <<"0", "8", "0", "0", "6", "1">>, <<"5", "7", "P", "0", "1">>,
   <<"5", "7", "P", "0", "2">>, <<"5", "7", "P", "0", "3">>,
   <<"5", "7", "P", "0", "4">>, <<"5", "3", "3", "0", "0">>,
   <<"5", "3", "3", "0", "1">>, <<"2", "3", "5", "0", "5">>,
   <<"4", "2", "6", "0", "1">>, <<"4", "0", "0", "0", "1">>,
   <<"4", "0", "P", "0", "1">>,
   <<"E", "N", "O", "T", "F", "O", "U", "N", "D">>}

\* Values of err.message, word by word.
Messages ==
  {<<>>,
   <<"Connection", "terminated", "unexpectedly">>,
   <<"error", ":", "Connection", "terminated", "unexpectedly", "!">>,
   <<"Connection", "terminated">>,
   <<"connection", "terminated", "unexpectedly">>,
   <<"sorry", ",", "too", "many", "clients", "already">>,
   <<"FATAL", ":", "sorry", ",", "too", "many", "clients", "already">>,
   <<"syntax", "error">>,
   <<"Random", "failure">>}

\* msg.includes(part).
Includes(msg, part) ==
  \E k \in 0..(Len(msg) - Len(part)) : SubSeq(msg, k + 1, k + Len(part)) = part

StartsWith(str, prefix) ==
  Len(str) >= Len(prefix) /\ SubSeq(str, 1, Len(prefix)) = prefix

IsRetryableError_WithDeadlocks(err) ==
  LET code == err.code
      msg == err.message
      sqlstate == IF err.code # <<>> THEN err.code ELSE err.sqlstate
  IN \/ code \in TransportCodes
     \/ Len(sqlstate) = 5 /\ StartsWith(sqlstate, <<"0", "8">>)
     \/ sqlstate \in {<<"5", "7", "P", "0", "1">>, <<"5", "7", "P", "0", "2">>, <<"5", "7", "P", "0", "3">>}
     \/ sqlstate = <<"5", "3", "3", "0", "0">>
     \/ sqlstate \in {<<"4", "0", "0", "0", "1">>, <<"4", "0", "P", "0", "1">>}
     \/ Includes(msg, <<"Connection", "terminated", "unexpectedly">>)
     \/ Includes(msg, <<"sorry", ",", "too", "many", "clients", "already">>)

\* RetryStrategy.isRetryable(err): err.code, err.message or '', and
\* err.code || err.sqlstate.
IsRetryableError(err) ==
  LET code == err.code
      msg == err.message
      sqlstate == IF err.code # <<>> THEN err.code ELSE err.sqlstate
  IN \/ code \in TransportCodes
     \/ Len(sqlstate) = 5 /\ StartsWith(sqlstate, <<"0", "8">>)
     \/ sqlstate \in {<<"5", "7", "P", "0", "1">>, <<"5", "7", "P", "0", "2">>, <<"5", "7", "P", "0", "3">>}
     \/ sqlstate = <<"5", "3", "3", "0", "0">>
     \/ Includes(msg, <<"Connection", "terminated", "unexpectedly">>)
     \/ Includes(msg, <<"sorry", ",", "too", "many", "clients", "already">>)

\* The errors: an absent code, sqlstate or message is <<>>.
Errors ==
  [code : TransportCodes \cup OtherCodes \cup {<<>>},
   sqlstate : OtherCodes \cup {<<>>},
   message : Messages]

RetryInit ==
  /\ DbInit
  /\ ClientInit
  /\ HbInit
  /\ hbMode = "reconnect"
  /\ SchedInit(PlainConfig)
  /\ LibInit

\* RetryStrategy.isRetryable(err), one call.
IsRetryableCall(err) ==
  /\ retry = NoRetry
  /\ retry' = [NoRetry EXCEPT !.fn = "isRetryable", !.err = err,
                              !.retryable = IsRetryableError(err)]
  /\ UNCHANGED <<lm, minted, parsed, q2, cleaned, labels>>
  /\ UNCHANGED <<reaperVars, clientVars, hbVars, schedVars>>

\* Math.floor(Math.random() * n) for a draw in [0, 1): any of 0..n - 1, and
\* for n <= 0 any of n..0.
FloorOfRandomTimes(n) == IF n > 0 THEN 0..(n - 1) ELSE n..0

\* randRange(min, max) of getBackoff.
RandRange(min, max) == {d + min : d \in FloorOfRandomTimes(max - min + 1)}

\* What RetryStrategy.getBackoff(baseMs, capMs, previousDelay) can return.
GetBackoff(baseMs, capMs, previousDelay) ==
  LET prev == IF previousDelay = 0 THEN baseMs ELSE previousDelay
  IN {Min(capMs, v) : v \in RandRange(baseMs, prev * 3)}

Delays == 0..MaxDelay

\* RetryStrategy.getBackoff(base, cap, prev) with base <= cap, one call.
GetBackoffCall(base, cap, prev) ==
  /\ retry = NoRetry
  /\ base <= cap
  /\ \E result \in GetBackoff(base, cap, prev) :
       retry' = [NoRetry EXCEPT !.fn = "getBackoff", !.base = base, !.cap = cap,
                                !.prev = prev, !.result = result]
  /\ UNCHANGED <<lm, minted, parsed, q2, cleaned, labels>>
  /\ UNCHANGED <<reaperVars, clientVars, hbVars, schedVars>>

RetryNext ==
  \/ \E err \in Errors : IsRetryableCall(err)
  \/ \E base \in Delays, cap \in Delays, prev \in Delays : GetBackoffCall(base, cap, prev)

RetrySpec == RetryInit /\ [][RetryNext]_vars

\* The SQLSTATE of an error: its code, or its sqlstate field when it has no
\* code.
SqlStateOf(err) == IF err.code # <<>> THEN err.code ELSE err.sqlstate

C35_BackoffWithinLimits ==
  retry.fn = "getBackoff" => retry.base <= retry.result /\ retry.result <= retry.cap

(***************************************************************************)
(* Properties of query() on the session it uses.                           *)
(***************************************************************************)
\* query() evaluates `this._client.query(...args)` in this step: in the pass
\* of its loop that found a usable session, or when it resumes after the
\* connect() or heartbeat it awaited resolved.
Dereferences ==
  \/ q.pc \in {"idle", "backoff"} /\ q'.pc = "stmt"
  \/ q.pc = "resume" /\ q.err = "none" /\ q'.pc # "resume"

\* C36: whenever query() dereferences the underlying session to send the
\* statement, a session is installed.
C36_StatementOnInstalledSession ==
  [][Dereferences => client # 0]_vars

\* Heartbeat attempt h fails in this step: the catch block of
\* _performHeartbeat runs.
FailsNow(h) == beats[h].pc = "race" /\ beats'[h].pc # "race"
                 /\ beat'.hook = "onHeartbeatFail"

\* C37: under heartbeatErrorMode 'reconnect', a heartbeat attempt that fails
\* after the session it was started on has been replaced neither marks the
\* client dead nor disposes the then-current session.
C37_StaleHeartbeatFailureSparesSession ==
  [][\A h \in Beats :
       (hbMode = "reconnect" /\ FailsNow(h) /\ Replaced(h))
         => (isDead' = isDead /\ client' = client
               /\ conns'[client].endCalled = conns[client].endCalled)]_vars

(***************************************************************************)
(* OverlapSpec: two query() calls overlapping on one client without a      *)
(* lease manager, whose handshakes succeed.                                 *)
(***************************************************************************)
\* A client without a coordination secret under leaseMode 'optional':
\* _leaseManager is null and _heartbeatIfNeeded returns at once.
LeaselessConfig == [leaseMode |-> "optional", secret |-> 0, reaper |-> FALSE,
                    reaperErrorMode |-> "swallow", onConnect |-> FALSE]

OverlapInit ==
  /\ DbInit
  /\ ClientInit
  /\ HbInit
  /\ hbMode = "reconnect"
  /\ SchedInit(LeaselessConfig)
  /\ LibInit

\* The second query(): `await this._client.query(...args)` on the current
\* session.
SecondSend(b) == [b EXCEPT !.pc = "stmt", !.on = client]

\* The second query() returns res or throws to its caller.
SecondReturned(result) == [IdleSecond EXCEPT !.pc = "done", !.result = result]

\* One pass of the loop of the second query(), up to its first await that
\* waits: `await this.connect()` without a usable session, the statement
\* otherwise.
SecondIterate(b) ==
  IF NeedsConnect
  THEN /\ IF InFlight
          THEN /\ q2' = [b EXCEPT !.pc = "connect", !.loop = connectPromise,
                                  !.gen = loops[connectPromise].gen]
               /\ UNCHANGED <<client, generation, connectPromise, loops, conns>>
          ELSE /\ generation < MaxQueryGen
               /\ HasFreeLoop
               /\ generation' = generation + 1
               /\ connectPromise' = FreeLoopId
               /\ BeginConnect(FreeLoopId, generation + 1, 0)
               /\ q2' = [b EXCEPT !.pc = "connect", !.loop = FreeLoopId,
                                  !.gen = generation + 1]
       /\ leaseExp' = LeaseAfter
       /\ UNCHANGED <<isDead, call>>
  ELSE /\ q2' = SecondSend(b)
       /\ UNCHANGED <<clientVars, leaseExp>>

\* The user calls query() a second time.
SecondCall ==
  /\ leaseManager # "raised"
  /\ q2.pc = "idle"
  /\ SecondIterate(q2)
  /\ UNCHANGED <<hbMode, heartbeatPromise, beats, q, beat, handler>>
  /\ UNCHANGED <<reaperVars, schedVars, lm, minted, parsed, retry, cleaned, labels>>

\* The session the retry path of the second query() would dispose is not the
\* one its statement ran on.
SecondOnReplaced == client # 0 /\ client # q2.on

\* The catch block of the second query() on an error of class kind; giveUp:
\* the time budget is spent.
SecondCatch(kind, giveUp) ==
  IF ~IsRetryable(kind) \/ q2.retries >= MaxRetries \/ giveUp
  THEN /\ q2' = SecondReturned("raised")
       /\ UNCHANGED <<client, isDead, generation, conns>>
  ELSE /\ generation < MaxQueryGen \/ (generation = MaxQueryGen /\ SecondOnReplaced)
       /\ isDead' = TRUE
       /\ DisposeClient
       /\ q2' = [q2 EXCEPT !.pc = IF client = 0 THEN "backoff" ELSE "disposing",
                           !.retries = @ + 1, !.on = client]

\* The connect() promise the second query() awaits has settled: its loop has
\* ended, or its record serves a later connect().
SecondSettled ==
  loops[q2.loop].pc = "free" \/ loops[q2.loop].gen # q2.gen

\* The second query() resumes after `await this.connect()` resolved: at
\* `this._client.query`, a TypeError when no session is installed.
SecondResume(giveUp) ==
  /\ q2.pc = "connect"
  /\ SecondSettled
  /\ IF client = 0
     THEN SecondCatch("permanent", giveUp)
     ELSE /\ q2' = SecondSend(q2)
          /\ UNCHANGED <<client, isDead, generation, conns>>
  /\ UNCHANGED <<connectPromise, loops, call>>
  /\ UNCHANGED hbVars
  /\ UNCHANGED <<reaperVars, schedVars, lm, minted, parsed, retry, cleaned, labels>>

\* The statement of the second query() resolves.
SecondStatementOk ==
  /\ q2.pc = "stmt"
  /\ conns[q2.on].st = "open"
  /\ q2' = SecondReturned("ok")
  /\ UNCHANGED <<clientVars, hbVars>>
  /\ UNCHANGED <<reaperVars, schedVars, lm, minted, parsed, retry, cleaned, labels>>

\* The statement of the second query() rejects with an error of class kind.
SecondStatementFail(kind, giveUp) ==
  /\ q2.pc = "stmt"
  /\ SecondCatch(kind, giveUp)
  /\ UNCHANGED <<connectPromise, loops, call>>
  /\ UNCHANGED hbVars
  /\ UNCHANGED <<reaperVars, schedVars, lm, minted, parsed, retry, cleaned, labels>>

\* `await this._disposeClient('query_error')` of the second query() resumes.
SecondDisposeDone ==
  /\ q2.pc = "disposing"
  /\ Gone(q2.on)
  /\ q2' = [q2 EXCEPT !.pc = "backoff", !.on = 0]
  /\ UNCHANGED <<clientVars, hbVars>>
  /\ UNCHANGED <<reaperVars, schedVars, lm, minted, parsed, retry, cleaned, labels>>

\* The backoff timer of the second query() fires: the next pass of its loop.
SecondBackoffDone ==
  /\ q2.pc = "backoff"
  /\ SecondIterate(q2)
  /\ UNCHANGED <<hbMode, heartbeatPromise, beats, q, beat, handler>>
  /\ UNCHANGED <<reaperVars, schedVars, lm, minted, parsed, retry, cleaned, labels>>

OverlapNext ==
  \/ QueryCall
  \/ \E giveUp \in BOOLEAN : QueryResume(giveUp)
  \/ StatementOk
  \/ \E kind \in ErrorKinds, giveUp \in BOOLEAN : StatementFail(kind, giveUp)
  \/ QueryDisposeDone
  \/ QueryBackoffDone
  \/ SecondCall
  \/ \E giveUp \in BOOLEAN : SecondResume(giveUp)
  \/ SecondStatementOk
  \/ \E kind \in ErrorKinds, giveUp \in BOOLEAN : SecondStatementFail(kind, giveUp)
  \/ SecondDisposeDone
  \/ SecondBackoffDone
  \/ \E l \in Loops : LoopReturn(l)
  \/ \E s \in Sessions, emits \in BOOLEAN : SessionEnd(s, emits)

OverlapSpec == OverlapInit /\ [][OverlapNext]_vars

\* The retry path of the first query() runs in this step, for a failed
\* statement.
RetryPath == q.pc = "stmt" /\ q'.pc \in {"disposing", "backoff"}

\* The same of the second query().
SecondRetryPath == q2.pc = "stmt" /\ q2'.pc \in {"disposing", "backoff"}

\* The session _disposeClient('query_error') closes in this step, 0 for none.
Disposes == IF client' = 0 THEN client ELSE 0

\* C38: with two query() calls overlapping on one client, the retry path of
\* a query whose statement failed closes no session other than the one the
\* statement was issued on.
C38_RetryClosesOnlyFailedSession ==
  [][/\ RetryPath => Disposes \in {0, q.on}
     /\ SecondRetryPath => Disposes \in {0, q2.on}]_vars

(***************************************************************************)
(* CleanSpec: one query() call of a client without a lease manager, and    *)
(* one clean() made at any moment, after which the user calls nothing.     *)
(***************************************************************************)
\* The user calls query(), before any clean().
QueryBeforeClean ==
  /\ ~cleaned.called
  /\ QueryCall

\* The user calls clean() or end(): _disposeClient('clean') raises the
\* generation, detaches the session and asks it to end.
FinalClean ==
  /\ ~cleaned.called
  /\ generation < MaxQueryGen
  /\ DisposeClient
  /\ cleaned' = [called |-> TRUE, s |-> client]
  /\ UNCHANGED <<isDead, connectPromise, loops, call>>
  /\ UNCHANGED hbVars
  /\ UNCHANGED <<reaperVars, schedVars, lm, minted, parsed, retry, q2, labels>>

\* The promise of clean() has resolved: there was no session to end, or
\* `await old.end()` has settled.
CleanResolved == cleaned.called /\ (cleaned.s = 0 \/ Gone(cleaned.s))

CleanNext ==
  \/ QueryBeforeClean
  \/ \E giveUp \in BOOLEAN : QueryResume(giveUp)
  \/ StatementOk
  \/ \E kind \in ErrorKinds, giveUp \in BOOLEAN : StatementFail(kind, giveUp)
  \/ QueryDisposeDone
  \/ QueryBackoffDone
  \/ \E l \in Loops : LoopReturn(l)
  \/ \E l \in Loops, giveUp \in BOOLEAN, kind \in ErrorKinds : LoopFail(l, giveUp, kind)
  \/ \E l \in Loops : LoopStep(l)
  \/ \E s \in Sessions, emits \in BOOLEAN : SessionEnd(s, emits)
  \/ FinalClean

CleanSpec == OverlapInit /\ [][CleanNext]_vars

\* C39: once clean() has resolved, with no connect() or query() started
\* after it, the client holds no session.
C39_NoSessionAfterClean == CleanResolved => client = 0

(***************************************************************************)
(* LabelSpec: the client of QuerySpec together with the label the database *)
(* holds for each of its sessions. The database takes the label of a       *)
(* session from the application_name it was opened with and replaces it    *)
(* when it processes a heartbeat's set_config, in the order sent.          *)
(***************************************************************************)
\* The label of session s is followed while the client can still use s: the
\* connection exists and end() was not called on it.
Followed(s) == conns'[s].st \in {"connecting", "open"} /\ ~conns'[s].endCalled

\* _connect: `application_name: appName` of the Client constructed in this
\* step carries the expiry `Date.now() + this._leaseTtlMs`, or none without
\* a lease manager.
Registered ==
  [s \in Sessions |->
     IF conns[s].st = "none" /\ conns'[s].st = "connecting"
     THEN IF leaseManager = "set" THEN now + LeaseTtl ELSE 0
     ELSE IF Followed(s) THEN labels[s] ELSE 0]

\* The label of the session of heartbeat attempt h once the database has
\* processed `SELECT set_config('application_name', $1, false)` (applied),
\* or has not.
SetConfig_Lost(h, applied) == labels[beats[h].s]
SetConfig(h, applied) ==
  IF applied THEN beats[h].newExp ELSE labels[beats[h].s]

\* QueryCall, with the label of a session it opens.
LabelQueryCall ==
  /\ leaseManager # "raised"
  /\ q.pc = "idle"
  /\ Iterate([IdleQuery EXCEPT !.hooks = <<"onQueryStart">>])
  /\ beat' = NoBeat
  /\ labels' = Registered
  /\ UNCHANGED <<hbMode, handler>>
  /\ UNCHANGED <<reaperVars, schedVars, lm, minted, parsed, retry, q2, cleaned>>

\* QueryBackoffDone, with the label of a session it opens.
LabelQueryBackoffDone ==
  /\ q.pc = "backoff"
  /\ Iterate([q EXCEPT !.err = "none"])
  /\ labels' = Registered
  /\ UNCHANGED <<hbMode, beat, handler>>
  /\ UNCHANGED <<reaperVars, schedVars, lm, minted, parsed, retry, q2, cleaned>>

\* LoopStep(l), with the label of the session it opens: the old session is
\* gone, or the backoff of _connectWithRetry is over, and _connect goes on.
LabelLoopStep(l) ==
  /\ \/ /\ loops[l].pc = "disposing"
        /\ Gone(loops[l].s)
        /\ HasFresh
        /\ conns' = [conns EXCEPT ![Fresh] = [st |-> "connecting", endCalled |-> FALSE,
                                               gen |-> loops[l].gen, fatal |-> 0]]
        /\ loops' = [loops EXCEPT ![l].pc = "handshake", ![l].s = Fresh]
        /\ UNCHANGED client
     \/ /\ loops[l].pc = "backoff"
        /\ BeginConnect(l, loops[l].gen, loops[l].retries)
  /\ leaseExp' = LeaseAfter
  /\ labels' = Registered
  /\ UNCHANGED <<isDead, generation, connectPromise, call>>
  /\ UNCHANGED <<hbMode, heartbeatPromise, beats, q, beat, handler>>
  /\ UNCHANGED <<reaperVars, schedVars, lm, minted, parsed, retry, q2, cleaned>>

\* HbStatementDone(h, hasRes): the database has processed the label update
\* it answers.
LabelHbStatementDone(h, hasRes) ==
  /\ beats[h].pc = "race"
  /\ conns[beats[h].s].st = "open"
  /\ IF hasRes
     THEN HeartbeatConfirmed(h)
     ELSE HeartbeatFailed(h, "empty", "permanent")
  /\ labels' = [s \in Sessions |->
                  IF ~Followed(s) THEN 0
                  ELSE IF s = beats[h].s THEN SetConfig(h, TRUE) ELSE labels[s]]
  /\ UNCHANGED <<hbMode, handler>>
  /\ UNCHANGED <<reaperVars, schedVars, lm, minted, parsed, retry, q2, cleaned>>

\* HbTimeout(h): the label update is still on its way, and the database
\* processes it later (applied) or never.
LabelHbTimeout(h, applied) ==
  /\ beats[h].pc = "race"
  /\ applied => conns[beats[h].s].st = "open"
  /\ HeartbeatFailed(h, "timeout", "transient")
  /\ labels' = [s \in Sessions |->
                  IF ~Followed(s) THEN 0
                  ELSE IF s = beats[h].s THEN SetConfig(h, applied) ELSE labels[s]]
  /\ UNCHANGED <<hbMode, handler>>
  /\ UNCHANGED <<reaperVars, schedVars, lm, minted, parsed, retry, q2, cleaned>>

LabelNext ==
  \/ Tick
  \/ LabelQueryCall
  \/ \E giveUp \in BOOLEAN : QueryResume(giveUp)
  \/ StatementOk
  \/ \E kind \in ErrorKinds, giveUp \in BOOLEAN : StatementFail(kind, giveUp)
  \/ QueryDisposeDone
  \/ LabelQueryBackoffDone
  \/ \E h \in Beats, hasRes \in BOOLEAN : LabelHbStatementDone(h, hasRes)
  \/ \E h \in Beats, kind \in ErrorKinds : HbStatementFail(h, kind)
  \/ \E h \in Beats, applied \in BOOLEAN : LabelHbTimeout(h, applied)
  \/ \E h \in Beats : HbDisposeDone(h)
  \/ \E l \in Loops : LabelLoopStep(l)
  \/ \E l \in Loops : LoopReturn(l)
  \/ \E l \in Loops, giveUp \in BOOLEAN, kind \in ErrorKinds : LoopFail(l, giveUp, kind)
  \/ \E s \in Sessions : SessionError(s)
  \/ \E s \in Sessions, emits \in BOOLEAN : SessionEnd(s, emits)
  \/ UserClean

LabelSpec == QueryInit /\ [][LabelNext]_vars

\* C40: while the client holds a session and has a lease manager, its local
\* leaseExp is not later than the expiry of the label the database holds for
\* that session.
C40_LocalLeaseWithinLabel ==
  (client # 0 /\ leaseManager = "set") => leaseExp <= labels[client]

\* A heartbeat has moved the lease of the current session: the local expiry
\* and the label are both past the ones the session was opened with.
C40_Witness ==
  /\ client # 0 /\ leaseManager = "set"
  /\ beat.how = "confirmed" /\ beat.updated
  /\ leaseExp = labels[client]
  /\ leaseExp > LeaseTtl

====
